---- MODULE Spec2Model ----
(***************************************************************************)
(* Regex rule application with change tracking and the merged diff view    *)
(* of eccomaggio/ashmolean (src/patterns).                                 *)
(*                                                                         *)
(* Texts are sequences of one-character strings.  Offsets are Python's:    *)
(* 0-based, half-open.                                                     *)
(***************************************************************************)
EXTENDS Integers, Sequences, FiniteSets, TLC

VARIABLES
    \* ---- ApplyWorker of interactive_regex.py (fields and position in run) ----
    original_text,   \* ApplyWorker.original_text
    patterns,        \* ApplyWorker.patterns
    should_stop,     \* ApplyWorker._should_stop
    pc,              \* position of run / _apply_patterns_fast
    current,         \* local `current` of _apply_patterns_fast
    pidx,            \* 1-based index of the rule being applied
    matches,         \* local `matches`
    mi,              \* 1-based index of the next match of `matches`
    pieces,          \* "".join(pieces) so far
    last_end,        \* local `last_end`
    modified_text,   \* local `modified_text` of run
    merged_text,     \* local `merged_text` of run
    tag_ranges,      \* local `tag_ranges` of run
    changed_line_pairs,   \* local of _compute_intraline_spans
    total_changed_lines,  \* local of _compute_intraline_spans
    ins_spans,       \* local of _compute_intraline_spans
    del_spans,       \* local of _compute_intraline_spans
    pi,              \* 1-based index of the next pair of changed_line_pairs
    emitted,         \* signals emitted by run, in order
    obs,             \* where a stop request was observed (history)
    \* ---- apply_patterns_and_record_fast of OLD_regex_apply_gui.py ----
    rec_text,        \* argument `text`
    rec_patterns,    \* argument `patterns`
    rec_pc,          \* "call", "returned" or "raised"
    rec_current,     \* the text returned
    all_records,     \* the records returned
    change_file,     \* the lines of the change file
    log_before,      \* the lines of the change file before the call (history)
    \* ---- PatternTransformerMainWindow of pattern_transformer.py ----
    text_path,       \* whether self.text_path is set
    text_view,       \* the text of self.text_view
    patterns_edit,   \* the lines of self.patterns_edit
    pt_pc,           \* "idle" before run_patterns, "done" after it
    transform_txt,   \* transform.txt: <<written, content>>
    diff_html,       \* diff.html: <<written, content>>
    pt_message,      \* the message box run_patterns has shown
    \* ---- MainWindow of interactive_regex.py and its worker threads ----
    plaintext_path,  \* whether self.plaintext_path is set
    win_original_text,  \* self.original_text of the window
    threads,         \* the QThreads created so far: [state, text]
    worker_thread,   \* self.worker_thread: index into threads, 0 for None
    gui_events,      \* signals of the workers queued for the GUI thread
    shown,           \* the thread whose result the views show, 0 for none
    message,         \* the last message box of the window
    \* ---- the thresholds of interactive_regex.py (module globals) ----
    max_intraline_lines,         \* MAX_INTRALINE_LINES
    max_line_len_for_intraline,  \* MAX_LINE_LEN_FOR_INTRALINE
    \* ---- calls of merge_ranges ----
    mr_ranges,       \* argument `ranges`
    mr_pc,           \* "call", "merged" (called once), "again" (called on its result)
    mr_merged,       \* the list the first call returns
    mr_again,        \* the list the call on mr_merged returns
    \* ---- the files of a MainWindow and its fields read by on_save_edits ----
    changes_path,    \* the change file: [exists, lines]
    plaintext_file,  \* the content of the file at self.plaintext_path
    backups,         \* the contents of the .bak files, oldest first
    edit_original_text,  \* self.original_text
    edit_modified_text,  \* self.modified_text
    editor,          \* self.editor.toPlainText()
    save_pc,         \* "idle" before the handler, "done" after it
    save_message,    \* the message box the handler has shown
    \* ---- MainWindow of OLD2_regex_apply_gui.py, its worker and its files ----
    o2_pc,           \* "new" before MainWindow.__init__, "window" after it
    o2_changes,      \* the change file at self.changes_path: [exists, lines]
    o2_plaintext,    \* the content of the file at self.plaintext_path
    o2_backups,      \* the contents of the .bak files, oldest first
    o2_patterns,     \* self.patterns
    o2_original_text,  \* self.original_text
    o2_modified_text,  \* self.modified_text, Unset before the first result
    o2_running,      \* self.worker_thread.isRunning()
    o2_worker,       \* the running worker: [exc, text, records still to emit]
    o2_calls,        \* the number of handlers the user has triggered
    \* ---- the rule parsers of pattern_transformer.py and interactive_regex.py ----
    src_lines,       \* the lines of the rules source, without their line ends
    pt_parsed,       \* whether the loop of run_patterns over the lines has run
    pt_rules,        \* local `rules` of run_patterns
    pt_warnings,     \* the warnings that loop has given
    ir_parsed,       \* whether parse_patterns has run
    ir_patterns,     \* the list parse_patterns returns
    ir_warnings,     \* the tokens parse_flag_string has warned about
    view_text,       \* the text of self.text_view the rules are applied to
    pt_applied,      \* whether the loop of run_patterns over the rules has run
    pt_transformed,  \* local `transformed` of run_patterns once the rules are applied
    \* ---- close requests of MainWindow of interactive_regex.py ----
    window,          \* "open", or "closed" once a close event is accepted
    close_pc,        \* "idle", or "waiting" inside worker_thread.wait of stop_worker
    close_declined,  \* whether a force-quit prompt has been answered No (history)
    \* ---- process of src/textExtract (writeCSV.py and main.py) ----
    te_program,      \* which of the two programs runs: "writeCSV" or "main"
    raw_lines,       \* argument `raw_lines`
    te_index,        \* 1-based index of the next line of raw_lines
    te_content,      \* local `content`
    te_pc            \* "loop", "returned" or "raised"

wvars == <<original_text, patterns, should_stop, pc, current, pidx, matches,
           mi, pieces, last_end, modified_text, merged_text, tag_ranges,
           changed_line_pairs, total_changed_lines, ins_spans, del_spans, pi,
           emitted, obs>>

\* the locals of the span computation
svars == <<merged_text, tag_ranges, changed_line_pairs, total_changed_lines, ins_spans,
           del_spans, pi>>

\* the locals of _apply_patterns_fast
avars == <<current, pidx, matches, mi, pieces, last_end, modified_text, obs>>

\* the state of a call of apply_patterns_and_record_fast
rvars == <<rec_text, rec_patterns, rec_pc, rec_current, all_records, change_file,
           log_before>>

\* the state of PatternTransformerMainWindow
pvars == <<text_path, text_view, patterns_edit, pt_pc, transform_txt, diff_html,
           pt_message>>

\* the state of MainWindow and its threads
gvars == <<plaintext_path, win_original_text, threads, worker_thread, gui_events, shown,
           message>>

\* the thresholds of the span computation
cvars == <<max_intraline_lines, max_line_len_for_intraline>>

\* the state of the calls of merge_ranges
mvars == <<mr_ranges, mr_pc, mr_merged, mr_again>>

\* the files of a MainWindow and what on_save_edits reads
fvars == <<changes_path, plaintext_file, backups, edit_original_text,
           edit_modified_text, editor, save_pc, save_message>>

\* MainWindow of OLD2_regex_apply_gui.py, its worker and its files
lvars == <<o2_pc, o2_changes, o2_plaintext, o2_backups, o2_patterns, o2_original_text,
           o2_modified_text, o2_running, o2_worker, o2_calls>>

\* the rule parsers and their source
xvars == <<src_lines, pt_parsed, pt_rules, pt_warnings, ir_parsed, ir_patterns,
           ir_warnings, view_text, pt_applied, pt_transformed>>

\* the close requests of the window
qvars == <<window, close_pc, close_declined>>

\* a call of process of src/textExtract
tvars == <<te_program, raw_lines, te_index, te_content, te_pc>>

\* everything but the state of ApplyWorker
nonworker == <<rvars, pvars, gvars, cvars, mvars, fvars, lvars, xvars, qvars,
    tvars>>

\* everything but the state of a call of apply_patterns_and_record_fast
nonrec == <<wvars, pvars, gvars, cvars, mvars, fvars, lvars, xvars, qvars,
    tvars>>

\* everything but the state of PatternTransformerMainWindow
nonpt == <<wvars, rvars, gvars, cvars, mvars, fvars, lvars, xvars, qvars,
    tvars>>

\* everything but the state of MainWindow and its threads
nongui == <<wvars, rvars, pvars, cvars, mvars, fvars, lvars, xvars, qvars,
    tvars>>

\* everything but the state of the calls of merge_ranges
nonranges == <<wvars, rvars, pvars, gvars, cvars, fvars, lvars, xvars, qvars,
    tvars>>

\* everything but the files of a MainWindow and what on_save_edits reads
nonfiles == <<wvars, rvars, pvars, gvars, cvars, mvars, lvars, xvars, qvars,
    tvars>>

\* everything but MainWindow of OLD2_regex_apply_gui.py, its worker and its files
nonlog == <<wvars, rvars, pvars, gvars, cvars, mvars, fvars, xvars, qvars,
    tvars>>

\* everything but the rule parsers and their source
nonparse == <<wvars, rvars, pvars, gvars, cvars, mvars, fvars, lvars, qvars,
    tvars>>

\* everything but the state of ApplyWorker and the close requests
nonclose == <<rvars, pvars, gvars, cvars, mvars, fvars, lvars, xvars, tvars>>

\* everything but a call of process of src/textExtract
nonextract == <<wvars, rvars, pvars, gvars, cvars, mvars, fvars, lvars, xvars, qvars>>

vars == <<wvars, rvars, pvars, gvars, cvars, mvars, fvars, lvars, xvars, qvars, tvars>>

----------------------------------------------------------------------------
\* Bounds of the model
MaxLen == 3
MaxRules == 2
MaxSpanLen == 3
MaxRanges == 3
MaxPos == 3

----------------------------------------------------------------------------
\* Python slices and joins on sequences

\* s[i:j] for 0 <= i, j (clipped like a Python slice)
Slice(s, i, j) ==
    LET jj == IF j > Len(s) THEN Len(s) ELSE j
    IN  IF i >= jj THEN <<>> ELSE SubSeq(s, i + 1, jj)

\* s[i:]
SliceFrom(s, i) == Slice(s, i, Len(s))

RECURSIVE Concat(_)
Concat(ss) == IF ss = <<>> THEN <<>> ELSE Head(ss) \o Concat(Tail(ss))

RECURSIVE SeqsUpTo(_, _)
SeqsUpTo(S, n) ==
    IF n = 0 THEN {<<>>}
    ELSE LET prev == SeqsUpTo(S, n - 1)
         IN  prev \cup {Append(s, x) : s \in {t \in prev : Len(t) = n - 1}, x \in S}

----------------------------------------------------------------------------
\* Regular expressions (Python's re, as the engines use it)
\*
\* A pattern text is a literal followed by an optional greedy repetition of a
\* character class, optionally captured as group 1:  lit, lit(cls*), lit(cls+).
\* `bad` marks a pattern text that re.compile rejects (such as "(").

Pat(lit, cls, rep, grp) == [lit |-> lit, cls |-> cls, rep |-> rep, grp |-> grp, bad |-> FALSE]
PatBad == [lit |-> <<>>, cls |-> {}, rep |-> "none", grp |-> FALSE, bad |-> TRUE]

CompileError == [bad |-> TRUE]
NoMatch == [start |-> -1, end |-> -1, groups |-> <<>>]

\* re.compile(pat_text, flags=flags): the compiled pattern, or re.error
Compile(pat_text, flags) == IF pat_text.bad THEN CompileError ELSE pat_text

\* pattern.groups
Groups(pattern) == IF pattern.grp THEN 1 ELSE 0

\* the length of the longest run of class characters of text starting at offset i
RECURSIVE ClassRun(_, _, _)
ClassRun(cls, text, i) ==
    IF i < Len(text) /\ text[i + 1] \in cls THEN 1 + ClassRun(cls, text, i + 1) ELSE 0

\* the match of pattern starting exactly at offset s, or NoMatch
MatchAt(pattern, text, s) ==
    LET e1 == s + Len(pattern.lit)
        k  == IF pattern.rep = "none" THEN 0 ELSE ClassRun(pattern.cls, text, e1)
    IN  IF e1 > Len(text) \/ Slice(text, s, e1) # pattern.lit THEN NoMatch
        ELSE IF pattern.rep = "plus" /\ k = 0 THEN NoMatch
        ELSE [start |-> s, end |-> e1 + k,
              groups |-> IF pattern.grp THEN <<Slice(text, e1, e1 + k)>> ELSE <<>>]

\* the scan of finditer from offset pos; adv: the previous match was empty, so
\* an empty match at pos is not allowed
RECURSIVE ScanFrom(_, _, _, _)
ScanFrom(pattern, text, pos, adv) ==
    IF pos > Len(text) THEN <<>>
    ELSE LET m == MatchAt(pattern, text, pos)
         IN  IF m = NoMatch \/ (adv /\ m.end = m.start)
             THEN ScanFrom(pattern, text, pos + 1, FALSE)
             ELSE <<m>> \o ScanFrom(pattern, text, m.end, m.end = m.start)

\* list(pattern.finditer(text)): left to right, non-overlapping
FindIter(pattern, text) == ScanFrom(pattern, text, 0, FALSE)

\* A replacement template is a sequence of units: a one-character string, or
\* one of the escapes below.  RawUnit gives the characters of a unit as they
\* stand in the template text.
Escapes == {"\\1", "\\2", "\\g<x>"}
RawUnit(u) ==
    CASE u = "\\1"    -> <<"\\", "1">>
      [] u = "\\2"    -> <<"\\", "2">>
      [] u = "\\g<x>" -> <<"\\", "g", "<", "x", ">">>
      [] OTHER        -> <<u>>

\* the template text, character by character
RECURSIVE RawText(_)
RawText(repl) == IF repl = <<>> THEN <<>> ELSE RawUnit(Head(repl)) \o RawText(Tail(repl))

\* m.expand(repl_text) for a match of a pattern with ngroups groups:
\* exc is "none", "re.error" (invalid group reference) or "IndexError"
\* (unknown group name); the first failing unit decides
RECURSIVE Expand(_, _, _)
Expand(repl, m, ngroups) ==
    IF repl = <<>> THEN [exc |-> "none", text |-> <<>>]
    ELSE LET u    == Head(repl)
             rest == Expand(Tail(repl), m, ngroups)
             n    == IF u = "\\1" THEN 1 ELSE 2
         IN  IF u = "\\g<x>" THEN [exc |-> "IndexError", text |-> <<>>]
             ELSE IF u \in {"\\1", "\\2"} /\ n > ngroups
                  THEN [exc |-> "re.error", text |-> <<>>]
             ELSE IF rest.exc # "none" THEN rest
             ELSE [exc |-> "none",
                   text |-> (IF u \in {"\\1", "\\2"} THEN m.groups[n] ELSE <<u>>) \o rest.text]

----------------------------------------------------------------------------
\* difflib.SequenceMatcher(a=a, b=b) on texts shorter than its autojunk
\* threshold: no junk, every character of b is indexed

Max(x, y) == IF x >= y THEN x ELSE y

\* the length of the common run of a[i:ahi] and b[j:bhi]
RECURSIVE CommonRun(_, _, _, _, _, _)
CommonRun(a, b, i, j, ahi, bhi) ==
    IF i < ahi /\ j < bhi /\ a[i + 1] = b[j + 1]
    THEN 1 + CommonRun(a, b, i + 1, j + 1, ahi, bhi)
    ELSE 0

\* find_longest_match(alo, ahi, blo, bhi): <<i, j, k>>, the longest matching
\* block, the earliest in a and then the earliest in b; <<alo, blo, 0>> if none
FindLongestMatch(a, b, alo, ahi, blo, bhi) ==
    LET cands == {c \in (alo .. ahi - 1) \X (blo .. bhi - 1) :
                    CommonRun(a, b, c[1], c[2], ahi, bhi) > 0}
        size(c) == CommonRun(a, b, c[1], c[2], ahi, bhi)
        best == CHOOSE c \in cands :
                  \A d \in cands :
                     \/ size(c) > size(d)
                     \/ size(c) = size(d) /\ c[1] < d[1]
                     \/ size(c) = size(d) /\ c[1] = d[1] /\ c[2] <= d[2]
    IN  IF cands = {} THEN <<alo, blo, 0>> ELSE <<best[1], best[2], size(best)>>

\* the matching blocks of get_matching_blocks before adjacent ones are joined
RECURSIVE RawBlocks(_, _, _, _, _, _)
RawBlocks(a, b, alo, ahi, blo, bhi) ==
    LET x == FindLongestMatch(a, b, alo, ahi, blo, bhi)
        i == x[1]
        j == x[2]
        k == x[3]
    IN  IF k = 0 THEN <<>>
        ELSE (IF alo < i /\ blo < j THEN RawBlocks(a, b, alo, i, blo, j) ELSE <<>>)
             \o <<x>>
             \o (IF i + k < ahi /\ j + k < bhi
                 THEN RawBlocks(a, b, i + k, ahi, j + k, bhi) ELSE <<>>)

\* the joining of adjacent blocks: cur is the block being grown
RECURSIVE Collapse(_, _)
Collapse(blocks, cur) ==
    IF blocks = <<>> THEN (IF cur[3] > 0 THEN <<cur>> ELSE <<>>)
    ELSE LET n == Head(blocks)
         IN  IF cur[1] + cur[3] = n[1] /\ cur[2] + cur[3] = n[2]
             THEN Collapse(Tail(blocks), <<cur[1], cur[2], cur[3] + n[3]>>)
             ELSE (IF cur[3] > 0 THEN <<cur>> ELSE <<>>) \o Collapse(Tail(blocks), n)

\* (mutant) the matching blocks without the sentinel
GetMatchingBlocksNoSentinel(a, b) ==
    Collapse(RawBlocks(a, b, 0, Len(a), 0, Len(b)), <<0, 0, 0>>)

\* get_matching_blocks(): ends with the sentinel <<len(a), len(b), 0>>
GetMatchingBlocks(a, b) ==
    Collapse(RawBlocks(a, b, 0, Len(a), 0, Len(b)), <<0, 0, 0>>)
        \o <<<<Len(a), Len(b), 0>>>>

\* (mutant) the equal opcodes are left out
RECURSIVE OpcodesFromChangesOnly(_, _, _)
OpcodesFromChangesOnly(blocks, i, j) ==
    IF blocks = <<>> THEN <<>>
    ELSE LET ai   == Head(blocks)[1]
             bj   == Head(blocks)[2]
             size == Head(blocks)[3]
             tag  == IF i < ai /\ j < bj THEN "replace"
                     ELSE IF i < ai THEN "delete"
                     ELSE IF j < bj THEN "insert"
                     ELSE ""
         IN  (IF tag # "" THEN <<<<tag, i, ai, j, bj>>>> ELSE <<>>)
             \o OpcodesFromChangesOnly(Tail(blocks), ai + size, bj + size)

\* the loop of get_opcodes over the matching blocks, from offsets i, j
RECURSIVE OpcodesFrom(_, _, _)
OpcodesFrom(blocks, i, j) ==
    IF blocks = <<>> THEN <<>>
    ELSE LET ai   == Head(blocks)[1]
             bj   == Head(blocks)[2]
             size == Head(blocks)[3]
             tag  == IF i < ai /\ j < bj THEN "replace"
                     ELSE IF i < ai THEN "delete"
                     ELSE IF j < bj THEN "insert"
                     ELSE ""
         IN  (IF tag # "" THEN <<<<tag, i, ai, j, bj>>>> ELSE <<>>)
             \o (IF size > 0 THEN <<<<"equal", ai, ai + size, bj, bj + size>>>> ELSE <<>>)
             \o OpcodesFrom(Tail(blocks), ai + size, bj + size)

\* sm.get_opcodes(): tuples <<tag, i1, i2, j1, j2>>
GetOpcodes(a, b) == OpcodesFrom(GetMatchingBlocks(a, b), 0, 0)

----------------------------------------------------------------------------
\* ApplyWorker._build_merged_from_original_and_modified

\* (mutant) the insert range of a replace starts where its delete range starts
ReplaceTagsInsAtCurPos(cur_pos, sdel, sins, j1, j2) ==
    <<<<"del", <<cur_pos, cur_pos + Len(sdel)>>, <<-1, -1>>>>,
      <<"ins", <<cur_pos, cur_pos + Len(sins)>>, <<j1, j2>>>>>>

\* the two tag ranges of a replace opcode: cur_pos has advanced past sdel when
\* the insert range is appended
ReplaceTags(cur_pos, sdel, sins, j1, j2) ==
    <<<<"del", <<cur_pos, cur_pos + Len(sdel)>>, <<-1, -1>>>>,
      <<"ins", <<cur_pos + Len(sdel), cur_pos + Len(sdel) + Len(sins)>>, <<j1, j2>>>>>>

\* the loop over the opcodes: pieces (joined), tag_ranges and cur_pos
RECURSIVE MergeLoop(_, _, _, _, _, _)
MergeLoop(ops, original, modified, mpieces, tags, cur_pos) ==
    IF ops = <<>> THEN [merged |-> mpieces, tag_ranges |-> tags]
    ELSE LET op   == Head(ops)
             tag  == op[1]
             sdel == Slice(original, op[2], op[3])
             sins == Slice(modified, op[4], op[5])
         IN  CASE tag = "equal" ->
                    MergeLoop(Tail(ops), original, modified, mpieces \o sdel,
                              tags, cur_pos + Len(sdel))
               [] tag = "delete" ->
                    MergeLoop(Tail(ops), original, modified, mpieces \o sdel,
                              Append(tags,
                                     <<"del", <<cur_pos, cur_pos + Len(sdel)>>, <<-1, -1>>>>),
                              cur_pos + Len(sdel))
               [] tag = "insert" ->
                    MergeLoop(Tail(ops), original, modified, mpieces \o sins,
                              Append(tags,
                                     <<"ins", <<cur_pos, cur_pos + Len(sins)>>, <<op[4], op[5]>>>>),
                              cur_pos + Len(sins))
               [] tag = "replace" ->
                    MergeLoop(Tail(ops), original, modified, mpieces \o sdel \o sins,
                              tags \o ReplaceTags(cur_pos, sdel, sins, op[4], op[5]),
                              cur_pos + Len(sdel) + Len(sins))

\* (merged, tag_ranges); a tag range is <<kind, <<start, end>> in merged, <<j1, j2>>>>
BuildMerged(original, modified) ==
    MergeLoop(GetOpcodes(original, modified), original, modified, <<>>, <<>>, 0)

----------------------------------------------------------------------------
\* Inputs: texts over a two-letter alphabet and lists of the rules below; a rule
\* is the tuple <<pat_text, repl_text, flags>> of parse_patterns

Alphabet == {"a", "b"}
Digits == {"0", "1", "2", "3", "4", "5", "6", "7", "8", "9"}
NoFlags == {}

RuleDouble  == <<Pat(<<"a">>, {}, "none", FALSE), <<"b", "b">>, NoFlags>>      \* a -> bb
RuleDelete  == <<Pat(<<"b">>, {}, "none", FALSE), <<>>, NoFlags>>              \* b ->
RuleStar    == <<Pat(<<>>, {"b"}, "star", TRUE), <<"a">>, NoFlags>>            \* (b*) -> a
RuleSwap    == <<Pat(<<"a">>, {"b"}, "plus", TRUE), <<"\\1", "a">>, NoFlags>>  \* a(b+) -> \1a
RuleBad     == <<PatBad, <<"a">>, NoFlags>>                                    \* ( -> a
RuleBadRef  == <<Pat(<<"a">>, {}, "none", FALSE), <<"\\2">>, NoFlags>>         \* a -> \2
RuleNamed   == <<Pat(<<"b">>, {}, "none", FALSE), <<"\\g<x>">>, NoFlags>>      \* b -> \g<x>

RuleSet == {RuleDouble, RuleDelete, RuleStar, RuleSwap, RuleBad, RuleBadRef, RuleNamed}

Texts == SeqsUpTo(Alphabet, MaxLen)
RuleLists == SeqsUpTo(RuleSet, MaxRules)

\* the example of the help dialog: foo(\d+) -> bar\1 on "foo123 and foo9"
ExampleText == <<"f", "o", "o", "1", "2", "3", " ", "a", "n", "d", " ", "f", "o", "o", "9">>
ExampleRule == <<Pat(<<"f", "o", "o">>, Digits, "plus", TRUE), <<"b", "a", "r", "\\1">>, NoFlags>>
ExampleOut  == <<"b", "a", "r", "1", "2", "3", " ", "a", "n", "d", " ", "b", "a", "r", "9">>

----------------------------------------------------------------------------
\* ApplyWorker (interactive_regex.py): run and _apply_patterns_fast, one action
\* per stretch of code between two reads of the stop flag

NoObs == [k |-> 0, j |-> 0]

ApplyResult(mod, merged, ins, del) ==
    [modified_text |-> mod, merged_text |-> merged, ins_spans |-> ins, del_spans |-> del]

Finished(res) == [sig |-> "finished", res |-> res]
Error(msg) == [sig |-> "error", res |-> msg]

\* ApplyWorker.stop(), called from the GUI thread at any moment of run
Stop ==
    /\ UNCHANGED nonworker
    /\ pc # "done"
    /\ ~should_stop
    /\ should_stop' = TRUE
    /\ UNCHANGED <<original_text, patterns, pc, current, pidx, matches, mi, pieces,
                   last_end, modified_text, emitted, obs>>
    /\ UNCHANGED svars

\* run, up to the call of _apply_patterns_fast
RunStart ==
    /\ UNCHANGED nonworker
    /\ pc = "run"
    /\ IF should_stop
       THEN /\ emitted' = Append(emitted,
                                 Finished(ApplyResult(original_text, original_text, <<>>, <<>>)))
            /\ pc' = "done"
            /\ UNCHANGED <<current, pidx>>
       ELSE /\ current' = original_text
            /\ pidx' = 1
            /\ pc' = "rule"
            /\ UNCHANGED emitted
    /\ UNCHANGED <<original_text, patterns, should_stop, matches, mi, pieces, last_end,
                   modified_text, obs>>
    /\ UNCHANGED svars

\* (mutant) the scan reads the text run was given, not the text built so far
RuleMatchesOfOriginal(pattern) == FindIter(pattern, original_text)

\* matches = list(pattern.finditer(current))
RuleMatches(pattern) == FindIter(pattern, current)

\* one turn of the loop over the rules, up to the loop over the matches
RuleBegin ==
    /\ UNCHANGED nonworker
    /\ pc = "rule"
    /\ IF pidx > Len(patterns)
       THEN \* return current
            /\ modified_text' = current
            /\ pc' = "applied"
            /\ UNCHANGED <<pidx, matches, mi, pieces, last_end, obs>>
       ELSE IF should_stop
       THEN /\ modified_text' = current
            /\ obs' = [k |-> pidx, j |-> 0]
            /\ pc' = "applied"
            /\ UNCHANGED <<pidx, matches, mi, pieces, last_end>>
       ELSE LET pattern == Compile(patterns[pidx][1], patterns[pidx][3])
            IN  IF pattern.bad \/ RuleMatches(pattern) = <<>>
                THEN \* compile error, or 0 matches: continue
                     /\ pidx' = pidx + 1
                     /\ UNCHANGED <<pc, matches, mi, pieces, last_end, modified_text, obs>>
                ELSE /\ matches' = RuleMatches(pattern)
                     /\ pieces' = <<>>
                     /\ last_end' = 0
                     /\ mi' = 1
                     /\ pc' = "match"
                     /\ UNCHANGED <<pidx, modified_text, obs>>
    /\ UNCHANGED <<original_text, patterns, should_stop, current, emitted>>
    /\ UNCHANGED svars

\* (mutant) the unprocessed remainder is dropped
StoppedTextNoRemainder == pieces

\* what _apply_patterns_fast returns when it stops inside the loop over the matches
StoppedText == pieces \o SliceFrom(current, last_end)

\* the head of the loop over the matches: the end of the loop, or the stop check
MatchBegin ==
    /\ UNCHANGED nonworker
    /\ pc = "match"
    /\ IF mi > Len(matches)
       THEN /\ current' = pieces \o (IF last_end < Len(current)
                                     THEN SliceFrom(current, last_end) ELSE <<>>)
            /\ pidx' = pidx + 1
            /\ pc' = "rule"
            /\ UNCHANGED <<modified_text, obs>>
       ELSE IF should_stop
       THEN /\ modified_text' = StoppedText
            /\ obs' = [k |-> pidx, j |-> mi - 1]
            /\ pc' = "applied"
            /\ UNCHANGED <<current, pidx>>
       ELSE /\ pc' = "body"
            /\ UNCHANGED <<current, pidx, modified_text, obs>>
    /\ UNCHANGED <<original_text, patterns, should_stop, matches, mi, pieces, last_end,
                   emitted>>
    /\ UNCHANGED svars

\* (mutant) the unchanged chunk before the match is dropped
MatchPiecesNoChunk(m, replacement_text) == replacement_text

\* the pieces appended for match m: the unchanged chunk before it and its
\* replacement
MatchPieces(m, replacement_text) ==
    (IF last_end < m.start THEN Slice(current, last_end, m.start) ELSE <<>>)
        \o replacement_text

\* the body of the loop over the matches; an exception other than re.error
\* leaves _apply_patterns_fast and is caught by run, which emits `error`
MatchBody ==
    /\ UNCHANGED nonworker
    /\ pc = "body"
    /\ LET m == matches[mi]
           x == Expand(patterns[pidx][2], m, Groups(patterns[pidx][1]))
           replacement_text == IF x.exc = "re.error" THEN RawText(patterns[pidx][2])
                               ELSE x.text
       IN  IF x.exc = "IndexError"
           THEN /\ emitted' = Append(emitted, Error("IndexError"))
                /\ pc' = "done"
                /\ UNCHANGED <<pieces, last_end, mi>>
           ELSE /\ pieces' = pieces \o MatchPieces(m, replacement_text)
                /\ last_end' = m.end
                /\ mi' = mi + 1
                /\ pc' = "match"
                /\ UNCHANGED emitted
    /\ UNCHANGED <<original_text, patterns, should_stop, current, pidx, matches,
                   modified_text, obs>>
    /\ UNCHANGED svars

----------------------------------------------------------------------------
\* merge_ranges and ApplyWorker._compute_intraline_spans (interactive_regex.py)

MAX_INTRALINE_LINES == 300
MAX_LINE_LEN_FOR_INTRALINE == 2000

\* sorted(ranges, key=lambda r: r[0]): a stable insertion of r into sorted
RECURSIVE InsertByStart(_, _)
InsertByStart(sorted, r) ==
    IF sorted = <<>> THEN <<r>>
    ELSE IF Head(sorted)[1] <= r[1] THEN <<Head(sorted)>> \o InsertByStart(Tail(sorted), r)
    ELSE <<r>> \o sorted

RECURSIVE SortByStart(_)
SortByStart(ranges) ==
    IF ranges = <<>> THEN <<>>
    ELSE InsertByStart(SortByStart(SubSeq(ranges, 1, Len(ranges) - 1)), ranges[Len(ranges)])

\* (mutant) spans that touch are not merged
RECURSIVE MergeFromOverlapping(_, _)
MergeFromOverlapping(sorted_ranges, cur) ==
    IF sorted_ranges = <<>> THEN <<cur>>
    ELSE LET r == Head(sorted_ranges)
         IN  IF r[1] < cur[2]
             THEN MergeFromOverlapping(Tail(sorted_ranges), <<cur[1], Max(cur[2], r[2])>>)
             ELSE <<cur>> \o MergeFromOverlapping(Tail(sorted_ranges), r)

\* (mutant) a span that starts inside the current one sets its end
RECURSIVE MergeFromLastEnd(_, _)
MergeFromLastEnd(sorted_ranges, cur) ==
    IF sorted_ranges = <<>> THEN <<cur>>
    ELSE LET r == Head(sorted_ranges)
         IN  IF r[1] <= cur[2]
             THEN MergeFromLastEnd(Tail(sorted_ranges), <<cur[1], r[2]>>)
             ELSE <<cur>> \o MergeFromLastEnd(Tail(sorted_ranges), r)

\* the loop of merge_ranges: cur is (cur_s, cur_e)
RECURSIVE MergeFrom(_, _)
MergeFrom(sorted_ranges, cur) ==
    IF sorted_ranges = <<>> THEN <<cur>>
    ELSE LET r == Head(sorted_ranges)
         IN  IF r[1] <= cur[2]
             THEN MergeFrom(Tail(sorted_ranges), <<cur[1], Max(cur[2], r[2])>>)
             ELSE <<cur>> \o MergeFrom(Tail(sorted_ranges), r)

\* (mutant) the ranges sorted by start, none merged
MergeRangesSortOnly(ranges) == SortByStart(ranges)

merge_ranges(ranges) ==
    IF ranges = <<>> THEN <<>>
    ELSE MergeFrom(Tail(SortByStart(ranges)), Head(SortByStart(ranges)))

\* text.splitlines(keepends=True), "\n" being the only line boundary of the texts
RECURSIVE SplitLines(_)
SplitLines(text) ==
    IF text = <<>> THEN <<>>
    ELSE IF \E i \in 1 .. Len(text) : text[i] = "\n"
    THEN LET i == CHOOSE i \in 1 .. Len(text) :
                    text[i] = "\n" /\ \A h \in 1 .. i - 1 : text[h] # "\n"
         IN  <<SubSeq(text, 1, i)>> \o SplitLines(SubSeq(text, i + 1, Len(text)))
    ELSE <<text>>

\* the line offset arrays: the offset of each line's first character
RECURSIVE LineOffsets(_, _)
LineOffsets(lines, acc) ==
    IF lines = <<>> THEN <<>>
    ELSE <<acc>> \o LineOffsets(Tail(lines), acc + Len(Head(lines)))

\* char_offset_to_line: the 0-based index of the last line starting at or
\* before offset, 0 if there is none
char_offset_to_line(offset, line_offsets) ==
    LET at == {i \in 1 .. Len(line_offsets) : line_offsets[i] <= offset}
    IN  IF at = {} THEN 0 ELSE (CHOOSE i \in at : \A h \in at : h <= i) - 1

\* the loop over range(max_lines) of a replace opcode: acc holds
\* changed_line_pairs and ins_spans
RECURSIVE ReplaceLines(_, _, _, _, _, _, _, _)
ReplaceLines(i, old_lines, new_lines, old_cum, new_cum, orig_offsets, mod_offsets, acc) ==
    IF i >= Max(Len(old_lines), Len(new_lines)) THEN acc
    ELSE LET ol == IF i < Len(old_lines) THEN old_lines[i + 1] ELSE <<>>
             nl == IF i < Len(new_lines) THEN new_lines[i + 1] ELSE <<>>
             acc2 ==
               IF ol # <<>> /\ nl # <<>>
               THEN [acc EXCEPT !.pairs =
                        Append(@, <<char_offset_to_line(old_cum, orig_offsets),
                                    char_offset_to_line(new_cum, mod_offsets)>>)]
               ELSE IF nl # <<>>
               THEN [acc EXCEPT !.ins = Append(@, <<new_cum, new_cum + Len(nl)>>)]
               ELSE acc
         IN  ReplaceLines(i + 1, old_lines, new_lines, old_cum + Len(ol), new_cum + Len(nl),
                          orig_offsets, mod_offsets, acc2)

\* the loop over the coarse opcodes: total_changed_lines, changed_line_pairs
\* and the coarse ins_spans
RECURSIVE CollectChanged(_, _, _, _)
CollectChanged(ops, original, modified, acc) ==
    IF ops = <<>> THEN acc
    ELSE LET op == Head(ops)
             old_lines == SplitLines(Slice(original, op[2], op[3]))
             new_lines == SplitLines(Slice(modified, op[4], op[5]))
             counted == [acc EXCEPT !.total = @ + Max(Len(old_lines), Len(new_lines))]
         IN  IF op[1] = "equal" THEN CollectChanged(Tail(ops), original, modified, acc)
             ELSE IF op[1] = "insert"
             THEN CollectChanged(Tail(ops), original, modified,
                                 [counted EXCEPT !.ins = Append(@, <<op[4], op[5]>>)])
             ELSE IF op[1] = "replace"
             THEN CollectChanged(Tail(ops), original, modified,
                                 ReplaceLines(0, old_lines, new_lines, op[2], op[4],
                                              LineOffsets(SplitLines(original), 0),
                                              LineOffsets(SplitLines(modified), 0), counted))
             ELSE CollectChanged(Tail(ops), original, modified, counted)

\* _compute_intraline_spans up to its fallback check
Collected(original, modified) ==
    CollectChanged(GetOpcodes(original, modified), original, modified,
                   [total |-> 0, pairs |-> <<>>, ins |-> <<>>])

\* the deletion spans of tag_ranges, in order
RECURSIVE DelRanges(_)
DelRanges(tags) ==
    IF tags = <<>> THEN <<>>
    ELSE (IF Head(tags)[1] = "del" THEN <<Head(tags)[2]>> ELSE <<>>)
         \o DelRanges(Tail(tags))

\* the spans of the opcodes of one line pair, at the lines' offsets
RECURSIVE LineSpans(_, _, _, _)
LineSpans(lops, base_old, base_new, acc) ==
    IF lops = <<>> THEN acc
    ELSE LET op == Head(lops)
             d  == IF op[1] \in {"replace", "delete"}
                   THEN Append(acc.del, <<base_old + op[2], base_old + op[3]>>) ELSE acc.del
             n  == IF op[1] \in {"replace", "insert"}
                   THEN Append(acc.ins, <<base_new + op[4], base_new + op[5]>>) ELSE acc.ins
         IN  LineSpans(Tail(lops), base_old, base_new, [del |-> d, ins |-> n])

\* (mutant) every pair is refined, whatever the length of its lines
PairSpansNoGuard(pair, original, modified, dels, inss) ==
    LET orig_lines == SplitLines(original)
        mod_lines  == SplitLines(modified)
        orig_offsets == LineOffsets(orig_lines, 0)
        mod_offsets  == LineOffsets(mod_lines, 0)
    IN  LineSpans(GetOpcodes(orig_lines[pair[1] + 1], mod_lines[pair[2] + 1]),
                  orig_offsets[pair[1] + 1], mod_offsets[pair[2] + 1],
                  [del |-> dels, ins |-> inss])

\* one turn of the loop over changed_line_pairs: the del_spans and ins_spans
\* after the pair <<orig_idx, mod_idx>>
PairSpans(pair, original, modified, dels, inss) ==
    LET orig_lines == SplitLines(original)
        mod_lines  == SplitLines(modified)
        orig_offsets == LineOffsets(orig_lines, 0)
        mod_offsets  == LineOffsets(mod_lines, 0)
        ol == IF pair[1] < Len(orig_lines) THEN orig_lines[pair[1] + 1] ELSE <<>>
        nl == IF pair[2] < Len(mod_lines) THEN mod_lines[pair[2] + 1] ELSE <<>>
        base_old == IF pair[1] < Len(orig_offsets) THEN orig_offsets[pair[1] + 1] ELSE 0
        base_new == IF pair[2] < Len(mod_offsets) THEN mod_offsets[pair[2] + 1] ELSE 0
    IN  IF Len(ol) > max_line_len_for_intraline \/ Len(nl) > max_line_len_for_intraline
        THEN [del |-> dels, ins |-> Append(inss, <<base_new, base_new + Len(nl)>>)]
        ELSE LineSpans(GetOpcodes(ol, nl), base_old, base_new, [del |-> dels, ins |-> inss])

----------------------------------------------------------------------------
\* ApplyWorker.run after _apply_patterns_fast has returned

\* the stop check of run, then _build_merged_from_original_and_modified and
\* _compute_intraline_spans up to its fallback check
AfterApply ==
    /\ UNCHANGED nonworker
    /\ pc = "applied"
    /\ IF should_stop
       THEN /\ emitted' = Append(emitted,
                                 Finished(ApplyResult(modified_text, modified_text, <<>>, <<>>)))
            /\ pc' = "done"
            /\ UNCHANGED svars
       ELSE LET bm == BuildMerged(original_text, modified_text)
                c  == Collected(original_text, modified_text)
            IN  /\ merged_text' = bm.merged
                /\ tag_ranges' = bm.tag_ranges
                /\ changed_line_pairs' = c.pairs
                /\ total_changed_lines' = c.total
                /\ ins_spans' = c.ins
                /\ pc' = "guard"
                /\ UNCHANGED <<del_spans, pi, emitted>>
    /\ UNCHANGED <<original_text, patterns, should_stop>>
    /\ UNCHANGED avars

\* the fallback check of _compute_intraline_spans
Guard ==
    /\ UNCHANGED nonworker
    /\ pc = "guard"
    /\ IF total_changed_lines > max_intraline_lines \/ should_stop
       THEN /\ emitted' = Append(emitted,
                                 Finished(ApplyResult(modified_text, merged_text,
                                                      merge_ranges(ins_spans),
                                                      merge_ranges(DelRanges(tag_ranges)))))
            /\ pc' = "done"
            /\ UNCHANGED <<del_spans, pi>>
       ELSE /\ del_spans' = <<>>
            /\ pi' = 1
            /\ pc' = "pair"
            /\ UNCHANGED emitted
    /\ UNCHANGED <<original_text, patterns, should_stop, merged_text, tag_ranges,
                   changed_line_pairs, total_changed_lines, ins_spans>>
    /\ UNCHANGED avars

\* the head of the loop over changed_line_pairs: its end or the stop check, both
\* followed by the rest of _compute_intraline_spans and of run
PairBegin ==
    /\ UNCHANGED nonworker
    /\ pc = "pair"
    /\ IF pi > Len(changed_line_pairs) \/ should_stop
       THEN /\ emitted' = Append(emitted,
                                 Finished(ApplyResult(modified_text, merged_text,
                                                      merge_ranges(ins_spans),
                                                      merge_ranges(del_spans \o
                                                                   DelRanges(tag_ranges)))))
            /\ pc' = "done"
       ELSE /\ pc' = "pairbody"
            /\ UNCHANGED emitted
    /\ UNCHANGED <<original_text, patterns, should_stop>>
    /\ UNCHANGED svars
    /\ UNCHANGED avars

\* the body of the loop over changed_line_pairs
PairBody ==
    /\ UNCHANGED nonworker
    /\ pc = "pairbody"
    /\ LET r == PairSpans(changed_line_pairs[pi], original_text, modified_text,
                          del_spans, ins_spans)
       IN  /\ del_spans' = r.del
           /\ ins_spans' = r.ins
    /\ pi' = pi + 1
    /\ pc' = "pair"
    /\ UNCHANGED <<original_text, patterns, should_stop, merged_text, tag_ranges,
                   changed_line_pairs, total_changed_lines, emitted>>
    /\ UNCHANGED avars

\* no worker: the variables of ApplyWorker when another program is modelled
WorkerIdle ==
    /\ original_text = <<>>
    /\ patterns = <<>>
    /\ should_stop = FALSE
    /\ pc = "none"
    /\ current = <<>>
    /\ pidx = 0
    /\ matches = <<>>
    /\ mi = 0
    /\ pieces = <<>>
    /\ last_end = 0
    /\ modified_text = <<>>
    /\ merged_text = <<>>
    /\ tag_ranges = <<>>
    /\ changed_line_pairs = <<>>
    /\ total_changed_lines = 0
    /\ ins_spans = <<>>
    /\ del_spans = <<>>
    /\ pi = 0
    /\ emitted = <<>>
    /\ obs = NoObs

\* no call of apply_patterns_and_record_fast
RecIdle ==
    /\ rec_text = <<>>
    /\ rec_patterns = <<>>
    /\ rec_pc = "none"
    /\ rec_current = <<>>
    /\ all_records = <<>>
    /\ change_file = <<>>
    /\ log_before = <<>>

PtIdle ==
    /\ text_path = FALSE
    /\ text_view = <<>>
    /\ patterns_edit = <<>>
    /\ pt_pc = "none"
    /\ transform_txt = <<FALSE, <<>>>>
    /\ diff_html = <<FALSE, <<>>>>
    /\ pt_message = "none"

RangesIdle ==
    /\ mr_ranges = <<>>
    /\ mr_pc = "none"
    /\ mr_merged = <<>>
    /\ mr_again = <<>>

\* the thresholds as the module sets them
DefaultThresholds ==
    /\ max_intraline_lines = MAX_INTRALINE_LINES
    /\ max_line_len_for_intraline = MAX_LINE_LEN_FOR_INTRALINE

FilesIdle ==
    /\ changes_path = [exists |-> FALSE, lines |-> <<>>]
    /\ plaintext_file = <<>>
    /\ backups = <<>>
    /\ edit_original_text = <<>>
    /\ edit_modified_text = <<>>
    /\ editor = <<>>
    /\ save_pc = "none"
    /\ save_message = "none"

NoWorker == [exc |-> "none", text |-> <<>>, records |-> <<>>]

LogIdle ==
    /\ o2_pc = "none"
    /\ o2_changes = [exists |-> FALSE, lines |-> <<>>]
    /\ o2_plaintext = <<>>
    /\ o2_backups = <<>>
    /\ o2_patterns = <<>>
    /\ o2_original_text = <<>>
    /\ o2_modified_text = <<>>
    /\ o2_running = FALSE
    /\ o2_worker = NoWorker
    /\ o2_calls = 0

ParseIdle ==
    /\ src_lines = <<>>
    /\ pt_parsed = TRUE
    /\ pt_rules = <<>>
    /\ pt_warnings = <<>>
    /\ ir_parsed = TRUE
    /\ ir_patterns = <<>>
    /\ ir_warnings = <<>>
    /\ view_text = <<>>
    /\ pt_applied = TRUE
    /\ pt_transformed = <<>>

ExtractIdle ==
    /\ te_program = "none"
    /\ raw_lines = <<>>
    /\ te_index = 0
    /\ te_content = <<>>
    /\ te_pc = "none"

CloseIdle ==
    /\ window = "none"
    /\ close_pc = "none"
    /\ close_declined = FALSE

GuiIdle ==
    /\ plaintext_path = FALSE
    /\ win_original_text = <<>>
    /\ threads = <<>>
    /\ worker_thread = 0
    /\ gui_events = <<>>
    /\ shown = 0
    /\ message = "none"

Init ==
    /\ ExtractIdle
    /\ CloseIdle
    /\ DefaultThresholds
    /\ RangesIdle
    /\ ParseIdle
    /\ FilesIdle
    /\ RecIdle
    /\ PtIdle
    /\ GuiIdle
    /\ LogIdle
    /\ \/ original_text \in Texts /\ patterns \in RuleLists
       \/ original_text = ExampleText /\ patterns = <<ExampleRule>>
    /\ should_stop = FALSE
    /\ pc = "run"
    /\ current = <<>>
    /\ pidx = 0
    /\ matches = <<>>
    /\ mi = 0
    /\ pieces = <<>>
    /\ last_end = 0
    /\ modified_text = <<>>
    /\ merged_text = <<>>
    /\ tag_ranges = <<>>
    /\ changed_line_pairs = <<>>
    /\ total_changed_lines = 0
    /\ ins_spans = <<>>
    /\ del_spans = <<>>
    /\ pi = 0
    /\ emitted = <<>>
    /\ obs = NoObs

Next ==
    \/ Stop
    \/ RunStart
    \/ RuleBegin
    \/ MatchBegin
    \/ MatchBody
    \/ AfterApply
    \/ Guard
    \/ PairBegin
    \/ PairBody

Spec == Init /\ [][Next]_vars

----------------------------------------------------------------------------
\* re.sub(pat, repl, text, flags=flags), as run_patterns of pattern_transformer.py
\* calls it

\* the scan of re.sub from offset pos: matches are replaced by their expansion,
\* every other character is copied
RECURSIVE SubFrom(_, _, _, _, _)
SubFrom(pattern, repl, text, pos, adv) ==
    IF pos > Len(text) THEN <<>>
    ELSE LET m == MatchAt(pattern, text, pos)
         IN  IF m = NoMatch \/ (adv /\ m.end = m.start)
             THEN (IF pos < Len(text) THEN <<text[pos + 1]>> ELSE <<>>)
                  \o SubFrom(pattern, repl, text, pos + 1, FALSE)
             ELSE Expand(repl, m, Groups(pattern)).text
                  \o SubFrom(pattern, repl, text, m.end, m.end = m.start)

\* exc is "none", or the exception raised: by the compilation of the pattern, or
\* by the parsing of the template, which precedes the scan
ReSub(pat_text, repl, text, flags) ==
    LET pattern == Compile(pat_text, flags)
    IN  IF pattern.bad THEN [exc |-> "re.error", text |-> <<>>]
        ELSE LET t == Expand(repl, [start |-> 0, end |-> 0, groups |-> <<<<>>>>],
                             Groups(pattern))
             IN  IF t.exc # "none" THEN [exc |-> t.exc, text |-> <<>>]
                 ELSE [exc |-> "none", text |-> SubFrom(pattern, repl, text, 0, FALSE)]

----------------------------------------------------------------------------
\* What the claims compare the engine with

\* the replacement of match m under rule: its expansion, the template text when
\* the expansion raises re.error
ReplacementOf(rule, m) ==
    LET x == Expand(rule[2], m, Groups(rule[1]))
    IN  IF x.exc = "re.error" THEN RawText(rule[2]) ELSE x.text

\* text from offset pos on, with the matches ms[i..j] replaced and all the rest
\* as it is
RECURSIVE ReplacedFrom(_, _, _, _, _, _)
ReplacedFrom(rule, text, ms, i, j, pos) ==
    IF i > j THEN SliceFrom(text, pos)
    ELSE Slice(text, pos, ms[i].start) \o ReplacementOf(rule, ms[i])
         \o ReplacedFrom(rule, text, ms, i + 1, j, ms[i].end)

\* the matches of rule in text; none when its pattern does not compile
MatchesOf(rule, text) ==
    IF Compile(rule[1], rule[3]).bad THEN <<>> ELSE FindIter(Compile(rule[1], rule[3]), text)

\* text with the first j matches of rule replaced
ReplacedPrefix(rule, text, j) == ReplacedFrom(rule, text, MatchesOf(rule, text), 1, j, 0)

\* text after rule: a rule that does not compile changes nothing
RuleOutput(rule, text) == ReplacedPrefix(rule, text, Len(MatchesOf(rule, text)))

\* text after the rules, each applied to the output of the one before
RECURSIVE RunRules(_, _)
RunRules(rules, text) ==
    IF rules = <<>> THEN text ELSE RunRules(Tail(rules), RuleOutput(Head(rules), text))

\* _apply_patterns_fast has just returned: after its last rule, or on a stop
ApplyReturned == pc = "applied" /\ obs = NoObs
ApplyStopped  == pc = "applied" /\ obs # NoObs

\* C2: rules are applied in list order, each scanning the text produced by the
\* rules before it: for every split of the rule list into R1 followed by R2, the
\* output of one pass over the whole list is the output of R2 on the output of R1
C2_RulesComposeInOrder ==
    ApplyReturned =>
        \A j \in 0 .. Len(patterns) :
            modified_text =
                RunRules(SubSeq(patterns, j + 1, Len(patterns)),
                         RunRules(SubSeq(patterns, 1, j), original_text))

\* a pass of two rules that both changed the text
C2_Witness ==
    /\ ApplyReturned
    /\ Len(patterns) = 2
    /\ RunRules(<<patterns[1]>>, original_text) # original_text
    /\ modified_text # RunRules(<<patterns[1]>>, original_text)
    /\ modified_text # RunRules(<<patterns[2]>>, original_text)

\* C3: for one rule whose pattern compiles (and whose template expands), the
\* output is the input with every match of one left-to-right non-overlapping scan
\* replaced by the expansion of the template and every other character copied in
\* place; foo(\d+) -> bar\1 turns "foo123 and foo9" into "bar123 and bar9"
C3_SingleRuleSubstitution ==
    (ApplyReturned /\ Len(patterns) = 1) =>
        LET r == ReSub(patterns[1][1], patterns[1][2], original_text, patterns[1][3])
        IN  /\ r.exc = "none" => modified_text = r.text
            /\ original_text = ExampleText => modified_text = ExampleOut

\* the example has been applied
C3_Witness ==
    /\ ApplyReturned
    /\ patterns = <<ExampleRule>>
    /\ original_text = ExampleText
    /\ modified_text = ExampleOut

\* C6: a failing expansion of the template stays local to its match: the run
\* goes on and ends by emitting `finished`, never `error`
C6_ExpansionFailureStaysLocal ==
    pc = "done" => (Len(emitted) = 1 /\ emitted[1].sig = "finished")

\* C7: on a stop observed at rule k after j of its matches, the returned text is
\* the output of rules 1..k-1 with exactly the first j matches of rule k
\* replaced in full and the remainder copied unchanged; no later rule is applied
C7_StopReturnsPrefixAndRemainder ==
    ApplyStopped =>
        LET scanned == RunRules(SubSeq(patterns, 1, obs.k - 1), original_text)
        IN  /\ obs.k \in 1 .. Len(patterns)
            /\ obs.j <= Len(MatchesOf(patterns[obs.k], scanned))
            /\ modified_text = ReplacedPrefix(patterns[obs.k], scanned, obs.j)

\* a stop observed at the second rule between two of its matches, the first
\* rule having changed the text
C7_Witness ==
    /\ ApplyStopped
    /\ obs.k = 2
    /\ obs.j = 1
    /\ LET scanned == RunRules(<<patterns[1]>>, original_text)
       IN  /\ scanned # original_text
           /\ Len(MatchesOf(patterns[2], scanned)) >= 2
           /\ modified_text # scanned
           /\ modified_text # RuleOutput(patterns[2], scanned)

\* C8: once stop() has been called during run, run ends by emitting `finished`
\* exactly once and never `error`
C8_StopEndsWithFinished ==
    (pc = "done" /\ should_stop) => (Len(emitted) = 1 /\ emitted[1].sig = "finished")

----------------------------------------------------------------------------
\* apply_patterns_and_record_fast (OLD_regex_apply_gui.py): the engine that
\* records its changes.  A record has the fields of the code but the timestamp.

Record(round_id, idx, rule, type, pos, text) ==
    [round |-> round_id, pattern_idx |-> idx, pattern |-> rule[1], replacement |-> rule[2],
     type |-> type, pos |-> pos, length |-> Len(text), text |-> text]

\* (mutant) the insert record is emitted before the delete record
MatchRecordsInsertFirst(round_id, idx, rule, a, matched_text, replacement_text) ==
    (IF Len(replacement_text) > 0
     THEN <<Record(round_id, idx, rule, "insert", a, replacement_text)>> ELSE <<>>)
    \o (IF Len(matched_text) > 0
        THEN <<Record(round_id, idx, rule, "delete", a, matched_text)>> ELSE <<>>)

\* (mutant) a delete record is emitted for an empty match as well
MatchRecordsAlwaysDelete(round_id, idx, rule, a, matched_text, replacement_text) ==
    <<Record(round_id, idx, rule, "delete", a, matched_text)>>
    \o (IF Len(replacement_text) > 0
        THEN <<Record(round_id, idx, rule, "insert", a, replacement_text)>> ELSE <<>>)

\* the records emitted for one match at offset a
MatchRecords(round_id, idx, rule, a, matched_text, replacement_text) ==
    (IF Len(matched_text) > 0
     THEN <<Record(round_id, idx, rule, "delete", a, matched_text)>> ELSE <<>>)
    \o (IF Len(replacement_text) > 0
        THEN <<Record(round_id, idx, rule, "insert", a, replacement_text)>> ELSE <<>>)

\* the loop over the matches ms[i..] of one rule: st holds pieces (joined),
\* last_end, the records emitted so far and the exception raised, if any
RECURSIVE RecordMatches(_, _, _, _, _, _, _)
RecordMatches(round_id, idx, rule, cur, ms, i, st) ==
    IF i > Len(ms) THEN st
    ELSE LET m == ms[i]
             chunk == IF st.last_end < m.start THEN Slice(cur, st.last_end, m.start) ELSE <<>>
             matched_text == Slice(cur, m.start, m.end)
             x == Expand(rule[2], m, Groups(rule[1]))
             replacement_text == IF x.exc = "re.error" THEN RawText(rule[2]) ELSE x.text
         IN  IF x.exc = "IndexError" THEN [st EXCEPT !.exc = "IndexError"]
             ELSE RecordMatches(round_id, idx, rule, cur, ms, i + 1,
                    [exc |-> "none",
                     pieces |-> st.pieces \o chunk \o replacement_text,
                     last_end |-> m.end,
                     records |-> st.records \o
                                 MatchRecords(round_id, idx, rule, m.start,
                                              matched_text, replacement_text)])

\* the loop over the rules from the pidx-th (1-based) on
RECURSIVE RecordRules(_, _, _, _, _)
RecordRules(round_id, rules, idx1, cur, records) ==
    IF idx1 > Len(rules) THEN [exc |-> "none", text |-> cur, records |-> records]
    ELSE LET rule == rules[idx1]
             pattern == Compile(rule[1], rule[3])
             ms == FindIter(pattern, cur)
             st == RecordMatches(round_id, idx1 - 1, rule, cur, ms, 1,
                                 [exc |-> "none", pieces |-> <<>>, last_end |-> 0,
                                  records |-> records])
         IN  IF pattern.bad \/ ms = <<>>
             THEN RecordRules(round_id, rules, idx1 + 1, cur, records)
             ELSE IF st.exc # "none"
             THEN [exc |-> st.exc, text |-> <<>>, records |-> st.records]
             ELSE RecordRules(round_id, rules, idx1 + 1,
                              st.pieces \o (IF st.last_end < Len(cur)
                                            THEN SliceFrom(cur, st.last_end) ELSE <<>>),
                              st.records)

\* (mutant) the call logs a record for the round itself before it tries a rule
RoundHeaderThenRules(text, rules, round_id) ==
    RecordRules(round_id, rules, 1, text,
                <<Record(round_id, 0, <<PatBad, <<>>, NoFlags>>, "insert", 0, <<>>)>>)

\* (final_text, records) or the exception that leaves the function; records
\* holds what emit_change_record has appended to the change file by then
apply_patterns_and_record_fast(text, rules, round_id) ==
    RecordRules(round_id, rules, 1, text, <<>>)

\* a record written to the change file by an earlier round
OldRecord == Record(0, 0, RuleDelete, "delete", 0, <<"b">>)

\* one call of apply_patterns_and_record_fast with round_id 1
RecApply ==
    /\ rec_pc = "call"
    /\ LET r == apply_patterns_and_record_fast(rec_text, rec_patterns, 1)
       IN  /\ change_file' = change_file \o r.records
           /\ IF r.exc = "none"
              THEN /\ rec_pc' = "returned"
                   /\ rec_current' = r.text
                   /\ all_records' = r.records
              ELSE /\ rec_pc' = "raised"
                   /\ UNCHANGED <<rec_current, all_records>>
    /\ UNCHANGED <<rec_text, rec_patterns, log_before>>
    /\ UNCHANGED nonrec

InitRec ==
    /\ ExtractIdle
    /\ CloseIdle
    /\ DefaultThresholds
    /\ RangesIdle
    /\ ParseIdle
    /\ FilesIdle
    /\ WorkerIdle
    /\ PtIdle
    /\ GuiIdle
    /\ LogIdle
    /\ \/ rec_text \in Texts /\ rec_patterns \in RuleLists
       \/ rec_text = ExampleText /\ rec_patterns = <<ExampleRule>>
    /\ rec_pc = "call"
    /\ rec_current = <<>>
    /\ all_records = <<>>
    /\ change_file \in {<<>>, <<OldRecord>>}
    /\ log_before = change_file

NextRec == RecApply

SpecRec == InitRec /\ [][NextRec]_vars

\* a record insert/delete replayed on text, by its pos, length and text only
ReplayOne(text, rec) ==
    IF rec.type = "delete"
    THEN Slice(text, 0, rec.pos) \o SliceFrom(text, rec.pos + rec.length)
    ELSE Slice(text, 0, rec.pos) \o rec.text \o SliceFrom(text, rec.pos)

RECURSIVE Replay(_, _)
Replay(text, records) ==
    IF records = <<>> THEN text ELSE Replay(ReplayOne(text, Head(records)), Tail(records))

\* C1: replaying the returned records on the input in emission order, by pos,
\* length and text alone, reconstructs the returned text
C1_ReplayReconstructsOutput ==
    rec_pc = "returned" => Replay(rec_text, all_records) = rec_current

\* the records the matches ms[i..] of rule in text call for, as
\* <<type, pattern_idx, pos, text>>: per match, in scan order, a delete carrying
\* the matched text if the match is non-empty, then an insert carrying the
\* replacement if the replacement is non-empty
RECURSIVE RecordsCalledFor(_, _, _, _, _)
RecordsCalledFor(rule, idx, text, ms, i) ==
    IF i > Len(ms) THEN <<>>
    ELSE (IF ms[i].end > ms[i].start
          THEN <<<<"delete", idx, ms[i].start, Slice(text, ms[i].start, ms[i].end)>>>>
          ELSE <<>>)
         \o (IF ReplacementOf(rule, ms[i]) # <<>>
             THEN <<<<"insert", idx, ms[i].start, ReplacementOf(rule, ms[i])>>>>
             ELSE <<>>)
         \o RecordsCalledFor(rule, idx, text, ms, i + 1)

\* the same for the rules from the k-th on, each scanning the output of the
\* one before
RECURSIVE RecordsCalledForRules(_, _, _)
RecordsCalledForRules(rules, k, text) ==
    IF k > Len(rules) THEN <<>>
    ELSE RecordsCalledFor(rules[k], k - 1, text, MatchesOf(rules[k], text), 1)
         \o RecordsCalledForRules(rules, k + 1, RuleOutput(rules[k], text))

RecordKey(rec) == <<rec.type, rec.pattern_idx, rec.pos, rec.text>>

\* C4: per match a delete record with the matched text iff the match is
\* non-empty, then an insert record with the replacement iff the replacement is
\* non-empty; the records of earlier matches and rules come first, in the
\* returned list and, after what it held before, in the log
C4_RecordsPerMatchInOrder ==
    rec_pc = "returned" =>
        /\ [i \in 1 .. Len(all_records) |-> RecordKey(all_records[i])]
              = RecordsCalledForRules(rec_patterns, 1, rec_text)
        /\ \A i \in 1 .. Len(all_records) : all_records[i].length = Len(all_records[i].text)
        /\ change_file = log_before \o all_records

\* two rules with records, a match with both records, an empty match with its
\* insert record only, appended to a log that held a record
C4_Witness ==
    /\ rec_pc = "returned"
    /\ log_before # <<>>
    /\ \E i, j \in 1 .. Len(all_records) :
          all_records[i].pattern_idx = 0 /\ all_records[j].pattern_idx = 1
    /\ \E i \in 1 .. Len(all_records) - 1 :
          /\ all_records[i].type = "delete" /\ all_records[i + 1].type = "insert"
          /\ all_records[i].pos = all_records[i + 1].pos
          /\ all_records[i].pattern_idx = all_records[i + 1].pattern_idx
    /\ \E i \in 2 .. Len(all_records) :
          all_records[i].type = "insert" /\ all_records[i - 1].type = "insert"

----------------------------------------------------------------------------
\* PatternTransformerMainWindow.run_patterns (pattern_transformer.py).  A line of
\* the patterns editor is blank, a comment, or the text of a rule.

BlankLine == [kind |-> "blank"]
CommentLine == [kind |-> "comment"]
RuleLine(rule) == [kind |-> "rule", rule |-> rule]

PtLines == {BlankLine, CommentLine} \cup {RuleLine(rule) : rule \in RuleSet}

\* parse_pattern_line: (pattern, replacement, flags), MULTILINE always set
parse_pattern_line(line) ==
    <<line.rule[1], line.rule[2], line.rule[3] \cup {"MULTILINE"}>>

\* the rules of the editor: blank lines and comments are passed over
RECURSIVE ParseLines(_)
ParseLines(lines) ==
    IF lines = <<>> THEN <<>>
    ELSE (IF Head(lines).kind = "rule" THEN <<parse_pattern_line(Head(lines))>> ELSE <<>>)
         \o ParseLines(Tail(lines))

\* the loop over the rules inside the try: the text after the last rule, or the
\* first exception, which ends the loop
RECURSIVE TransformRules(_, _)
TransformRules(rules, transformed) ==
    IF rules = <<>> THEN [exc |-> "none", text |-> transformed]
    ELSE LET r == ReSub(Head(rules)[1], Head(rules)[2], transformed, Head(rules)[3])
         IN  IF r.exc # "none" THEN r ELSE TransformRules(Tail(rules), r.text)

\* the page HtmlDiff.make_file builds from the lines of the two texts
HtmlDiff(original, transformed) == [fromlines |-> original, tolines |-> transformed]

\* run_patterns; written is whether write_text of transform.txt succeeds and
\* generated whether the page is built and diff.html written.  The last box
\* shown is "Done" whether or not the web view loads the page.
run_patterns ==
    /\ pt_pc = "idle"
    /\ pt_pc' = "done"
    /\ \E written, generated \in BOOLEAN :
          IF ~text_path
          THEN pt_message' = "No text file" /\ UNCHANGED <<transform_txt, diff_html>>
          ELSE IF \A i \in 1 .. Len(patterns_edit) : patterns_edit[i].kind = "blank"
          THEN pt_message' = "No patterns" /\ UNCHANGED <<transform_txt, diff_html>>
          ELSE LET r == TransformRules(ParseLines(patterns_edit), text_view)
               IN  IF r.exc = "re.error"
                   THEN pt_message' = "Regex error" /\ UNCHANGED <<transform_txt, diff_html>>
                   ELSE IF r.exc # "none"
                   THEN pt_message' = "Error" /\ UNCHANGED <<transform_txt, diff_html>>
                   ELSE IF ~written
                   THEN pt_message' = "Write error" /\ UNCHANGED <<transform_txt, diff_html>>
                   ELSE /\ transform_txt' = <<TRUE, r.text>>
                        /\ IF ~generated
                           THEN pt_message' = "Diff error" /\ UNCHANGED diff_html
                           ELSE /\ diff_html' = <<TRUE, HtmlDiff(text_view, r.text)>>
                                /\ pt_message' = "Done"
    /\ UNCHANGED <<text_path, text_view, patterns_edit>>
    /\ UNCHANGED nonpt

InitPT ==
    /\ ExtractIdle
    /\ CloseIdle
    /\ DefaultThresholds
    /\ RangesIdle
    /\ ParseIdle
    /\ FilesIdle
    /\ WorkerIdle
    /\ RecIdle
    /\ GuiIdle
    /\ LogIdle
    /\ text_path \in BOOLEAN
    /\ text_view \in Texts
    /\ patterns_edit \in SeqsUpTo(PtLines, MaxRules)
    /\ pt_pc = "idle"
    /\ transform_txt = <<FALSE, <<>>>>
    /\ diff_html = <<FALSE, <<>>>>
    /\ pt_message = "none"

NextPT == run_patterns

SpecPT == InitPT /\ [][NextPT]_vars

\* the rules whose pattern compiles
CompilingRules(rules) == SelectSeq(rules, LAMBDA rule : ~Compile(rule[1], rule[3]).bad)

\* C5: a rule whose pattern does not compile is skipped without aborting the
\* run: the later rules are applied, and the text written is the text the same
\* list gives with the failing rules removed
C5_NonCompilingRuleSkipped ==
    LET rules == ParseLines(patterns_edit)
        ref   == TransformRules(CompilingRules(rules), text_view)
    IN  ( /\ pt_pc = "done"
          /\ text_path
          /\ pt_message # "Write error"
          /\ CompilingRules(rules) # rules
          /\ ref.exc = "none" )
        => (pt_message = "Done" /\ transform_txt = <<TRUE, ref.text>>)

----------------------------------------------------------------------------
\* MainWindow (interactive_regex.py): the handlers that start a pass, and the
\* life of the worker threads.  A thread is "started" (start() called, run not
\* yet begun), "run" (ApplyWorker.run executing), "ran" (run has returned and
\* emitted its signal, the event loop of the thread has not yet exited) or
\* "finished".

MaxPasses == 3

\* what a plaintext file may hold when it is read
GuiTexts == {<<"a">>, <<"b">>}

\* the outcome of a read that raises
ReadError == <<"OSError">>

\* self.worker_thread and self.worker_thread.isRunning()
isRunning(ths, wt) == wt # 0 /\ ths[wt].state # "finished"

\* (mutant) _start_worker without its guard
StartWorkerNoGuard(ths, wt, text, parsed) ==
    IF ~parsed THEN [threads |-> ths, worker_thread |-> wt]
    ELSE [threads |-> Append(ths, [state |-> "started", text |-> text]),
          worker_thread |-> Len(ths) + 1]

\* _start_worker: nothing while the current thread runs; otherwise a new thread
\* with a worker on the window's text is started.  parsed is whether
\* parse_patterns returns.
StartWorker(ths, wt, text, parsed) ==
    IF isRunning(ths, wt) \/ ~parsed THEN [threads |-> ths, worker_thread |-> wt]
    ELSE [threads |-> Append(ths, [state |-> "started", text |-> text]),
          worker_thread |-> Len(ths) + 1]

\* the body of on_reapply_patterns; read is the text of the file, or ReadError
Reapply(read, parsed) ==
    IF ~plaintext_path
    THEN message' = "No plaintext" /\ UNCHANGED <<win_original_text, threads, worker_thread>>
    ELSE IF isRunning(threads, worker_thread)
    THEN message' = "Busy" /\ UNCHANGED <<win_original_text, threads, worker_thread>>
    ELSE IF read = ReadError
    THEN UNCHANGED <<message, win_original_text, threads, worker_thread>>
    ELSE LET w == StartWorker(threads, worker_thread, read, parsed)
         IN  /\ win_original_text' = read
             /\ threads' = w.threads
             /\ worker_thread' = w.worker_thread
             /\ UNCHANGED message

on_reapply_patterns ==
    /\ Len(threads) < MaxPasses
    /\ \E read \in GuiTexts \cup {ReadError}, parsed \in BOOLEAN : Reapply(read, parsed)
    /\ UNCHANGED <<plaintext_path, gui_events, shown>>
    /\ UNCHANGED nongui

\* accepted is the result of the dialog, reloaded whether parse_patterns returns
on_edit_patterns ==
    /\ Len(threads) < MaxPasses
    /\ \E accepted, reloaded \in BOOLEAN :
          IF ~accepted
          THEN UNCHANGED <<message, win_original_text, threads, worker_thread>>
          ELSE IF ~reloaded
          THEN /\ message' = "Pattern load error"
               /\ UNCHANGED <<win_original_text, threads, worker_thread>>
          ELSE IF plaintext_path
          THEN \E read \in GuiTexts \cup {ReadError}, parsed \in BOOLEAN : Reapply(read, parsed)
          ELSE UNCHANGED <<message, win_original_text, threads, worker_thread>>
    /\ UNCHANGED <<plaintext_path, gui_events, shown>>
    /\ UNCHANGED nongui

\* chosen is whether the file dialog returns a path
on_action_open_plain ==
    /\ Len(threads) < MaxPasses
    /\ \E chosen \in BOOLEAN, read \in GuiTexts \cup {ReadError}, parsed \in BOOLEAN :
          IF ~chosen
          THEN UNCHANGED <<plaintext_path, message, win_original_text, threads, worker_thread>>
          ELSE /\ plaintext_path' = TRUE
               /\ IF read = ReadError
                  THEN /\ message' = "Open error"
                       /\ UNCHANGED <<win_original_text, threads, worker_thread>>
                  ELSE LET w == StartWorker(threads, worker_thread, read, parsed)
                       IN  /\ win_original_text' = read
                           /\ threads' = w.threads
                           /\ worker_thread' = w.worker_thread
                           /\ UNCHANGED message
    /\ UNCHANGED <<gui_events, shown>>
    /\ UNCHANGED nongui

\* the thread's event loop delivers `started` to the worker: run begins
ThreadRunBegins ==
    /\ \E t \in 1 .. Len(threads) :
          /\ threads[t].state = "started"
          /\ threads' = [threads EXCEPT ![t].state = "run"]
    /\ UNCHANGED <<plaintext_path, win_original_text, worker_thread, gui_events, shown,
                   message>>
    /\ UNCHANGED nongui

\* run returns, having emitted `finished` or `error`, queued for the GUI thread
ThreadRunReturns ==
    /\ \E t \in 1 .. Len(threads), sig \in {"finished", "error"} :
          /\ threads[t].state = "run"
          /\ threads' = [threads EXCEPT ![t].state = "ran"]
          /\ gui_events' = Append(gui_events, [sig |-> sig, thread |-> t])
    /\ UNCHANGED <<plaintext_path, win_original_text, worker_thread, shown, message>>
    /\ UNCHANGED nongui

\* the quit() connected to `finished` and `error` ends the event loop of the
\* thread: in the emitting thread or when the GUI thread gets to it, so at any
\* moment after run has returned
ThreadExits ==
    /\ \E t \in 1 .. Len(threads) :
          /\ threads[t].state = "ran"
          /\ threads' = [threads EXCEPT ![t].state = "finished"]
    /\ UNCHANGED <<plaintext_path, win_original_text, worker_thread, gui_events, shown,
                   message>>
    /\ UNCHANGED nongui

\* _on_worker_finished: the views show the result
on_worker_finished ==
    /\ gui_events # <<>>
    /\ Head(gui_events).sig = "finished"
    /\ shown' = Head(gui_events).thread
    /\ message' = "Done"
    /\ gui_events' = Tail(gui_events)
    /\ UNCHANGED <<plaintext_path, win_original_text, threads, worker_thread>>
    /\ UNCHANGED nongui

\* _on_worker_error
on_worker_error ==
    /\ gui_events # <<>>
    /\ Head(gui_events).sig = "error"
    /\ message' = "Worker error"
    /\ gui_events' = Tail(gui_events)
    /\ UNCHANGED <<plaintext_path, win_original_text, threads, worker_thread, shown>>
    /\ UNCHANGED nongui

\* MainWindow.__init__: without a plaintext, with one that is empty or missing,
\* or with one whose text a first worker is started on
InitGui ==
    /\ ExtractIdle
    /\ CloseIdle
    /\ DefaultThresholds
    /\ LogIdle
    /\ RangesIdle
    /\ ParseIdle
    /\ FilesIdle
    /\ WorkerIdle
    /\ RecIdle
    /\ PtIdle
    /\ gui_events = <<>>
    /\ shown = 0
    /\ message = "none"
    /\ \/ /\ plaintext_path \in BOOLEAN
          /\ win_original_text = <<>>
          /\ threads = <<>>
          /\ worker_thread = 0
       \/ /\ plaintext_path = TRUE
          /\ win_original_text \in GuiTexts
          /\ threads = StartWorker(<<>>, 0, win_original_text, TRUE).threads
          /\ worker_thread = StartWorker(<<>>, 0, win_original_text, TRUE).worker_thread

NextGui ==
    \/ on_action_open_plain
    \/ on_reapply_patterns
    \/ on_edit_patterns
    \/ ThreadRunBegins
    \/ ThreadRunReturns
    \/ ThreadExits
    \/ on_worker_finished
    \/ on_worker_error

SpecGui == InitGui /\ [][NextGui]_vars

\* the threads that isRunning() holds of
RunningThreads == {t \in 1 .. Len(threads) : threads[t].state # "finished"}

\* C9: at most one pass is in flight: a request made while a worker thread runs
\* starts no second one, so never two threads run and never two executions of
\* ApplyWorker.run overlap
C9_AtMostOnePassInFlight ==
    /\ Cardinality(RunningThreads) <= 1
    /\ RunningThreads \subseteq {worker_thread}

\* a second pass runs after the first has ended, and a request made while it
\* runs has changed the window's text without starting a worker on it
C9_Witness ==
    /\ Len(threads) = 2
    /\ threads[1].state = "finished"
    /\ threads[2].state = "run"
    /\ worker_thread = 2
    /\ win_original_text # threads[2].text

----------------------------------------------------------------------------
\* _build_merged_from_original_and_modified on any two texts

\* one call of the method on (original, modified)
build_merged_from_original_and_modified ==
    /\ pc = "build"
    /\ merged_text' = BuildMerged(original_text, modified_text).merged
    /\ tag_ranges' = BuildMerged(original_text, modified_text).tag_ranges
    /\ pc' = "built"
    /\ UNCHANGED <<original_text, patterns, should_stop, current, pidx, matches, mi,
                   pieces, last_end, modified_text, changed_line_pairs,
                   total_changed_lines, ins_spans, del_spans, pi, emitted, obs>>
    /\ UNCHANGED nonworker

InitMerge ==
    /\ ExtractIdle
    /\ CloseIdle
    /\ DefaultThresholds
    /\ RangesIdle
    /\ ParseIdle
    /\ FilesIdle
    /\ RecIdle
    /\ PtIdle
    /\ GuiIdle
    /\ LogIdle
    /\ original_text \in Texts
    /\ modified_text \in Texts
    /\ pc = "build"
    /\ patterns = <<>>
    /\ should_stop = FALSE
    /\ current = <<>>
    /\ pidx = 0
    /\ matches = <<>>
    /\ mi = 0
    /\ pieces = <<>>
    /\ last_end = 0
    /\ merged_text = <<>>
    /\ tag_ranges = <<>>
    /\ changed_line_pairs = <<>>
    /\ total_changed_lines = 0
    /\ ins_spans = <<>>
    /\ del_spans = <<>>
    /\ pi = 0
    /\ emitted = <<>>
    /\ obs = NoObs

NextMerge == build_merged_from_original_and_modified

SpecMerge == InitMerge /\ [][NextMerge]_vars

\* the slices the opcodes call for, joined in opcode order
RECURSIVE SlicesOf(_, _, _)
SlicesOf(ops, a, b) ==
    IF ops = <<>> THEN <<>>
    ELSE LET op == Head(ops)
         IN  (CASE op[1] \in {"equal", "delete"} -> Slice(a, op[2], op[3])
                [] op[1] = "insert" -> Slice(b, op[4], op[5])
                [] op[1] = "replace" -> Slice(a, op[2], op[3]) \o Slice(b, op[4], op[5]))
             \o SlicesOf(Tail(ops), a, b)

\* the tags of the opcodes, each spanning the place of its slice in the join;
\* pos is the length of what the opcodes before have placed
RECURSIVE PlacedTags(_, _)
PlacedTags(ops, pos) ==
    IF ops = <<>> THEN <<>>
    ELSE LET op == Head(ops)
             la == op[3] - op[2]
             lb == op[5] - op[4]
             del == <<"del", <<pos, pos + la>>, <<-1, -1>>>>
         IN  CASE op[1] = "equal" -> PlacedTags(Tail(ops), pos + la)
               [] op[1] = "delete" -> <<del>> \o PlacedTags(Tail(ops), pos + la)
               [] op[1] = "insert" ->
                    <<<<"ins", <<pos, pos + lb>>, <<op[4], op[5]>>>>>>
                    \o PlacedTags(Tail(ops), pos + lb)
               [] op[1] = "replace" ->
                    <<del, <<"ins", <<pos + la, pos + la + lb>>, <<op[4], op[5]>>>>>>
                    \o PlacedTags(Tail(ops), pos + la + lb)

\* whether offset i of the merged text lies in a span tagged kind
InSpan(tags, kind, i) ==
    \E k \in 1 .. Len(tags) : tags[k][1] = kind /\ tags[k][2][1] <= i /\ i < tags[k][2][2]

\* text from offset i on, without the characters in spans tagged kind
RECURSIVE WithoutSpans(_, _, _, _)
WithoutSpans(text, tags, kind, i) ==
    IF i >= Len(text) THEN <<>>
    ELSE (IF InSpan(tags, kind, i) THEN <<>> ELSE <<text[i + 1]>>)
         \o WithoutSpans(text, tags, kind, i + 1)

\* C10: the merged text is the join, in opcode order, of a's slice for equal and
\* delete, b's slice for insert, a's slice then b's slice for replace; each tag
\* spans the place of its slice, the spans are disjoint and ascending; without
\* the insertion spans the merged text is a, without the deletion spans it is b
C10_MergedTextInterleaves ==
    pc = "built" =>
        LET ops == GetOpcodes(original_text, modified_text)
        IN  /\ merged_text = SlicesOf(ops, original_text, modified_text)
            /\ tag_ranges = PlacedTags(ops, 0)
            /\ \A k \in 1 .. Len(tag_ranges) :
                  /\ 0 <= tag_ranges[k][2][1]
                  /\ tag_ranges[k][2][1] < tag_ranges[k][2][2]
                  /\ tag_ranges[k][2][2] <= Len(merged_text)
                  /\ k < Len(tag_ranges) => tag_ranges[k][2][2] <= tag_ranges[k + 1][2][1]
            /\ WithoutSpans(merged_text, tag_ranges, "ins", 0) = original_text
            /\ WithoutSpans(merged_text, tag_ranges, "del", 0) = modified_text

\* a pair of texts with an equal and a replace opcode and a third tag
C10_Witness ==
    /\ pc = "built"
    /\ Len(tag_ranges) >= 3
    /\ \E k, l \in 1 .. Len(GetOpcodes(original_text, modified_text)) :
          /\ GetOpcodes(original_text, modified_text)[k][1] = "replace"
          /\ GetOpcodes(original_text, modified_text)[l][1] = "equal"

----------------------------------------------------------------------------
\* The spans of an ApplyResult

\* whether offset i lies in one of ranges
InRanges(ranges, i) ==
    \E k \in 1 .. Len(ranges) : ranges[k][1] <= i /\ i < ranges[k][2]

\* text from offset i on, without the characters that ranges cover
RECURSIVE OutsideRanges(_, _, _)
OutsideRanges(text, ranges, i) ==
    IF i >= Len(text) THEN <<>>
    ELSE (IF InRanges(ranges, i) THEN <<>> ELSE <<text[i + 1]>>)
         \o OutsideRanges(text, ranges, i + 1)

\* the results run has emitted with `finished`
Results == {emitted[i].res : i \in {h \in 1 .. Len(emitted) : emitted[h].sig = "finished"}}

\* C11: in every ApplyResult emitted by run, the spans of del_spans are
\* intervals of merged_text that cover only characters removed from the
\* original: merged_text without the characters they cover is modified_text
C11_DelSpansRenderOnMerged ==
    \A res \in Results :
        /\ \A k \in 1 .. Len(res.del_spans) :
              /\ 0 <= res.del_spans[k][1]
              /\ res.del_spans[k][1] <= res.del_spans[k][2]
              /\ res.del_spans[k][2] <= Len(res.merged_text)
        /\ OutsideRanges(res.merged_text, res.del_spans, 0) = res.modified_text

----------------------------------------------------------------------------
\* run from the return of _apply_patterns_fast on, for any original and modified
\* text of up to MaxSpanLen characters in lines, whatever rules gave the one
\* from the other, under the thresholds of the module or lower ones

LineAlphabet == Alphabet \cup {"\n"}
LineTexts == SeqsUpTo(LineAlphabet, MaxSpanLen)

InitSpans ==
    /\ ExtractIdle
    /\ CloseIdle
    /\ RangesIdle
    /\ ParseIdle
    /\ FilesIdle
    /\ RecIdle
    /\ PtIdle
    /\ GuiIdle
    /\ LogIdle
    /\ max_intraline_lines \in {0, MAX_INTRALINE_LINES}
    /\ max_line_len_for_intraline \in {1, MAX_LINE_LEN_FOR_INTRALINE}
    /\ original_text \in LineTexts
    /\ modified_text \in LineTexts
    /\ pc = "applied"
    /\ patterns = <<>>
    /\ should_stop = FALSE
    /\ current = modified_text
    /\ pidx = 0
    /\ matches = <<>>
    /\ mi = 0
    /\ pieces = <<>>
    /\ last_end = 0
    /\ merged_text = <<>>
    /\ tag_ranges = <<>>
    /\ changed_line_pairs = <<>>
    /\ total_changed_lines = 0
    /\ ins_spans = <<>>
    /\ del_spans = <<>>
    /\ pi = 0
    /\ emitted = <<>>
    /\ obs = NoObs

NextSpans ==
    \/ Stop
    \/ AfterApply
    \/ Guard
    \/ PairBegin
    \/ PairBody

SpecSpans == InitSpans /\ [][NextSpans]_vars

\* ranges lie in text: 0 <= s <= e <= len(text)
RangesWithin(ranges, text) ==
    \A k \in 1 .. Len(ranges) :
        0 <= ranges[k][1] /\ ranges[k][1] <= ranges[k][2] /\ ranges[k][2] <= Len(text)

\* ranges are sorted ascending and no two overlap or touch
RangesNormalised(ranges) ==
    \A k \in 1 .. Len(ranges) - 1 : ranges[k][2] < ranges[k + 1][1]

\* C12: every span of a result of _compute_intraline_spans, on the normal, the
\* guarded and the cancelled path, has 0 <= s <= e <= length of its reference
\* text (merged_text for del_spans, modified_text for ins_spans), and each list
\* is sorted ascending with no two spans overlapping or touching
C12_SpansWithinAndNormalised ==
    \A res \in Results :
        /\ RangesWithin(res.del_spans, res.merged_text)
        /\ RangesWithin(res.ins_spans, res.modified_text)
        /\ RangesNormalised(res.del_spans)
        /\ RangesNormalised(res.ins_spans)

\* a result of the normal path with refined pairs, several deletion spans, an
\* insertion span, and spans that merge_ranges has merged
C12_Witness ==
    /\ pc = "done"
    /\ ~should_stop
    /\ total_changed_lines <= max_intraline_lines
    /\ changed_line_pairs # <<>>
    /\ \E res \in Results :
          /\ Len(res.del_spans) >= 2
          /\ Len(res.ins_spans) >= 1
          /\ Len(res.del_spans) < Len(del_spans) + Len(DelRanges(tag_ranges))

\* the insertion spans, in the modified text, of the coarse insert and replace
\* opcodes
RECURSIVE CoarseIns(_)
CoarseIns(ops) ==
    IF ops = <<>> THEN <<>>
    ELSE (IF Head(ops)[1] \in {"insert", "replace"}
          THEN <<<<Head(ops)[4], Head(ops)[5]>>>> ELSE <<>>)
         \o CoarseIns(Tail(ops))

\* the fallback of the first guard has been taken, and not for a stop
GuardedByLines ==
    /\ pc = "done"
    /\ ~should_stop
    /\ total_changed_lines > max_intraline_lines

\* C13: when the changed lines counted over the non-equal coarse opcodes exceed
\* the threshold, no intraline alignment is done and the coarse spans are
\* returned: the deletion span of every coarse delete or replace opcode, the
\* insertion span of every coarse insert or replace opcode, none missing and
\* none added
C13_GuardReturnsCoarseSpans ==
    GuardedByLines =>
        \A res \in Results :
            /\ res.del_spans = merge_ranges(DelRanges(tag_ranges))
            /\ res.ins_spans =
                  merge_ranges(CoarseIns(GetOpcodes(original_text, modified_text)))

\* the offset at which the line of 0-based index idx starts
LineStart(lines, idx) == Len(Concat(SubSeq(lines, 1, idx)))

\* the spans of the opcodes ops of one line pair whose kind is in kinds, each
\* moved by base; side is 2 for the old line, 4 for the new one
RECURSIVE MovedSpans(_, _, _, _)
MovedSpans(ops, kinds, base, side) ==
    IF ops = <<>> THEN <<>>
    ELSE (IF Head(ops)[1] \in kinds
          THEN <<<<base + Head(ops)[side], base + Head(ops)[side + 1]>>>> ELSE <<>>)
         \o MovedSpans(Tail(ops), kinds, base, side)

\* the lines of the pair of 1-based index k of changed_line_pairs
OldLineOf(k) == SplitLines(original_text)[changed_line_pairs[k][1] + 1]
NewLineOf(k) == SplitLines(modified_text)[changed_line_pairs[k][2] + 1]

LongPair(k) ==
    \/ Len(OldLineOf(k)) > max_line_len_for_intraline
    \/ Len(NewLineOf(k)) > max_line_len_for_intraline

\* C14: for a changed line pair with a line longer than the per-line threshold
\* no intraline alignment is run and the whole destination line is tagged as
\* inserted; any other pair is refined by its own alignment, the offsets of its
\* opcodes moved by the line-start offsets of its two lines
C14_LongPairTaggedOthersRefined ==
    [][(pc = "pairbody" /\ pc' = "pair") =>
          LET old_start == LineStart(SplitLines(original_text), changed_line_pairs[pi][1])
              new_start == LineStart(SplitLines(modified_text), changed_line_pairs[pi][2])
              lops == GetOpcodes(OldLineOf(pi), NewLineOf(pi))
          IN  IF LongPair(pi)
              THEN /\ del_spans' = del_spans
                   /\ ins_spans' = Append(ins_spans,
                                          <<new_start, new_start + Len(NewLineOf(pi))>>)
              ELSE /\ del_spans' = del_spans
                                   \o MovedSpans(lops, {"replace", "delete"}, old_start, 2)
                   /\ ins_spans' = ins_spans
                                   \o MovedSpans(lops, {"replace", "insert"}, new_start, 4)
    ]_vars

\* a run that has passed a pair with a long line and a pair it has refined
C14_Witness ==
    /\ pc = "pair"
    /\ \E k, l \in 1 .. pi - 1 : LongPair(k) /\ ~LongPair(l)

----------------------------------------------------------------------------
\* merge_ranges on any list of up to MaxRanges spans with ends up to MaxPos

\* the spans (start, end) with 0 <= start <= end <= MaxPos
Spans == {sp \in (0 .. MaxPos) \X (0 .. MaxPos) : sp[1] <= sp[2]}

\* merge_ranges(ranges)
MergeRangesCall ==
    /\ mr_pc = "call"
    /\ mr_merged' = merge_ranges(mr_ranges)
    /\ mr_pc' = "merged"
    /\ UNCHANGED <<mr_ranges, mr_again>>
    /\ UNCHANGED nonranges

\* merge_ranges on the list it has returned
MergeRangesAgain ==
    /\ mr_pc = "merged"
    /\ mr_again' = merge_ranges(mr_merged)
    /\ mr_pc' = "again"
    /\ UNCHANGED <<mr_ranges, mr_merged>>
    /\ UNCHANGED nonranges

InitRanges ==
    /\ ExtractIdle
    /\ CloseIdle
    /\ DefaultThresholds
    /\ ParseIdle
    /\ FilesIdle
    /\ WorkerIdle
    /\ RecIdle
    /\ PtIdle
    /\ GuiIdle
    /\ LogIdle
    /\ mr_ranges \in SeqsUpTo(Spans, MaxRanges)
    /\ mr_pc = "call"
    /\ mr_merged = <<>>
    /\ mr_again = <<>>

NextRanges ==
    \/ MergeRangesCall
    \/ MergeRangesAgain

SpecRanges == InitRanges /\ [][NextRanges]_vars

\* C15: merge_ranges is idempotent and normalising: merging its output again
\* changes nothing, and its output is sorted by start with no two consecutive
\* spans where next.start <= prev.end
C15_MergeRangesIdempotent ==
    /\ mr_pc \in {"merged", "again"} =>
          \A k \in 1 .. Len(mr_merged) - 1 :
              /\ mr_merged[k][1] <= mr_merged[k + 1][1]
              /\ ~(mr_merged[k + 1][1] <= mr_merged[k][2])
    /\ mr_pc = "again" => mr_again = mr_merged

\* C29: merge_ranges preserves coverage: a position lies inside a span of the
\* output (start <= position < end) exactly when it lies inside a span of the
\* input, for every list of spans with start <= end
C29_MergeRangesPreservesCoverage ==
    mr_pc \in {"merged", "again"} =>
        \A i \in 0 .. MaxPos : InRanges(mr_merged, i) <=> InRanges(mr_ranges, i)

\* a list with a span nested in another one and an empty span, merged into
\* fewer spans that leave a position uncovered
C29_Witness ==
    /\ mr_pc = "merged"
    /\ \E k, l \in 1 .. Len(mr_ranges) :
          /\ k # l
          /\ mr_ranges[k][1] < mr_ranges[l][1]
          /\ mr_ranges[l][2] < mr_ranges[k][2]
    /\ \E k \in 1 .. Len(mr_ranges) : mr_ranges[k][1] = mr_ranges[k][2]
    /\ Len(mr_merged) < Len(mr_ranges)
    /\ \E i, j \in 0 .. MaxPos - 1 : InRanges(mr_merged, i) /\ ~InRanges(mr_merged, j)

\* an unsorted list with spans that touch, merged into fewer spans, still
\* several, and merged again
C15_Witness ==
    /\ mr_pc = "again"
    /\ \E k \in 1 .. Len(mr_ranges) - 1 : mr_ranges[k][1] > mr_ranges[k + 1][1]
    /\ \E k, l \in 1 .. Len(mr_ranges) : mr_ranges[k][2] = mr_ranges[l][1] /\ k # l
    /\ Len(mr_merged) < Len(mr_ranges)
    /\ Len(mr_merged) >= 2

----------------------------------------------------------------------------
\* The opcodes of an alignment

\* the ranges ops give at side (2 for the source, 4 for the destination),
\* taken in order, partition [0, n): each starts where the one before ends
Partitions(ops, side, n) ==
    IF ops = <<>> THEN n = 0
    ELSE /\ ops[1][side] = 0
         /\ ops[Len(ops)][side + 1] = n
         /\ \A k \in 1 .. Len(ops) : ops[k][side] <= ops[k][side + 1]
         /\ \A k \in 1 .. Len(ops) - 1 : ops[k][side + 1] = ops[k + 1][side]

\* C16: the opcodes of the alignment of a and b cover both texts exactly and
\* contiguously: the source ranges partition [0, len(a)) and the destination
\* ranges partition [0, len(b)), with no gaps and no overlaps
C16_OpcodesPartitionBothTexts ==
    pc = "built" =>
        LET ops == GetOpcodes(original_text, modified_text)
        IN  /\ Partitions(ops, 2, Len(original_text))
            /\ Partitions(ops, 4, Len(modified_text))

\* an alignment with an insert, an equal and a delete opcode
C16_Witness ==
    /\ pc = "built"
    /\ LET ops == GetOpcodes(original_text, modified_text)
       IN  /\ Len(ops) >= 3
           /\ \E k \in 1 .. Len(ops) : ops[k][1] = "insert" /\ ops[k][2] = ops[k][3]
           /\ \E k \in 1 .. Len(ops) : ops[k][1] = "delete" /\ ops[k][4] = ops[k][5]
           /\ \E k \in 1 .. Len(ops) : ops[k][1] = "equal"

\* the results of a pass that has changed nothing
UnchangedResults == {res \in Results : res.modified_text = original_text}

\* merged_text is the original and there is no span
NothingToShow(res) ==
    /\ res.merged_text = original_text
    /\ res.del_spans = <<>>
    /\ res.ins_spans = <<>>

\* C17 (as stated): aligning any text a with itself yields exactly one opcode,
\* of kind equal, spanning all of a; so a pass that changes nothing gives
\* merged_text equal to the original and no deletion or insertion span
C17_SelfAlignmentOneEqual ==
    \A res \in UnchangedResults :
        /\ GetOpcodes(original_text, res.modified_text)
              = <<<<"equal", 0, Len(original_text), 0, Len(original_text)>>>>
        /\ NothingToShow(res)

\* C17 (amended): aligning a non-empty text a with itself yields exactly one
\* opcode, of kind equal, spanning all of a, and aligning the empty text with
\* itself yields no opcode; in both cases a pass that changes nothing gives
\* merged_text equal to the original and no deletion or insertion span
C17_SelfAlignmentOneEqualUnlessEmpty ==
    \A res \in UnchangedResults :
        /\ GetOpcodes(original_text, res.modified_text)
              = IF original_text = <<>> THEN <<>>
                ELSE <<<<"equal", 0, Len(original_text), 0, Len(original_text)>>>>
        /\ NothingToShow(res)

\* a pass with rules over a text of several characters that has changed nothing
C17_Witness ==
    /\ pc = "done"
    /\ ~should_stop
    /\ patterns # <<>>
    /\ Len(original_text) >= 2
    /\ UnchangedResults # {}

----------------------------------------------------------------------------
\* Both engines on the same text and the same rules: a call of
\* apply_patterns_and_record_fast and a run of ApplyWorker, in any interleaving

InitEngines ==
    /\ ExtractIdle
    /\ CloseIdle
    /\ DefaultThresholds
    /\ RangesIdle
    /\ ParseIdle
    /\ FilesIdle
    /\ PtIdle
    /\ GuiIdle
    /\ LogIdle
    /\ original_text \in Texts
    /\ patterns \in SeqsUpTo(RuleSet, MaxRules - 1)
    /\ rec_text = original_text
    /\ rec_patterns = patterns
    /\ rec_pc = "call"
    /\ rec_current = <<>>
    /\ all_records = <<>>
    /\ change_file \in {<<>>, <<OldRecord>>}
    /\ log_before = change_file
    /\ should_stop = FALSE
    /\ pc = "run"
    /\ current = <<>>
    /\ pidx = 0
    /\ matches = <<>>
    /\ mi = 0
    /\ pieces = <<>>
    /\ last_end = 0
    /\ modified_text = <<>>
    /\ merged_text = <<>>
    /\ tag_ranges = <<>>
    /\ changed_line_pairs = <<>>
    /\ total_changed_lines = 0
    /\ ins_spans = <<>>
    /\ del_spans = <<>>
    /\ pi = 0
    /\ emitted = <<>>
    /\ obs = NoObs

NextEngines ==
    \/ RecApply
    \/ Stop
    \/ RunStart
    \/ RuleBegin
    \/ MatchBegin
    \/ MatchBody
    \/ AfterApply
    \/ Guard
    \/ PairBegin
    \/ PairBody

SpecEngines == InitEngines /\ [][NextEngines]_vars

\* C18: applying the empty rule list is the identity: the engine returns the
\* text unchanged and emits no change record, in the list and in the log, and
\* the result of the worker has modified_text and merged_text equal to the text
\* and no span
C18_EmptyRuleListIsIdentity ==
    /\ (rec_patterns = <<>> /\ rec_pc # "call") =>
          /\ rec_pc = "returned"
          /\ rec_current = rec_text
          /\ all_records = <<>>
          /\ change_file = log_before
    /\ (patterns = <<>> /\ pc = "done") =>
          emitted = <<Finished(ApplyResult(original_text, original_text, <<>>, <<>>))>>

\* both engines have ended on a text of several characters with no rule, the
\* log holding a record of an earlier round
C18_Witness ==
    /\ rec_patterns = <<>>
    /\ patterns = <<>>
    /\ rec_pc = "returned"
    /\ pc = "done"
    /\ Len(rec_text) >= 2
    /\ log_before # <<>>

----------------------------------------------------------------------------
\* MainWindow.on_save_edits (interactive_regex.py) and the files it writes

\* a record of a manual edit: round and pattern_idx are None
EditRecord(type, pos, text) ==
    [round |-> "None", pattern_idx |-> "None", type |-> type, pos |-> pos,
     length |-> Len(text), text |-> text]

\* the records of the loop over the opcodes, in the order of their emission
RECURSIVE EditRecords(_, _, _)
EditRecords(ops, base, edited) ==
    IF ops = <<>> THEN <<>>
    ELSE LET op  == Head(ops)
             tag == op[1]
             rec_del == EditRecord("delete", op[2], Slice(base, op[2], op[3]))
             rec_ins == EditRecord("insert", op[2], Slice(edited, op[4], op[5]))
         IN  (CASE tag = "equal"   -> <<>>
                [] tag = "delete"  -> <<rec_del>>
                [] tag = "insert"  -> <<rec_ins>>
                [] tag = "replace" -> <<rec_del, rec_ins>>)
             \o EditRecords(Tail(ops), base, edited)

\* the records of recs whose emission does not fail, in order
RECURSIVE Emitted(_, _, _)
Emitted(recs, failed, i) ==
    IF i > Len(recs) THEN <<>>
    ELSE (IF i \in failed THEN <<>> ELSE <<recs[i]>>) \o Emitted(recs, failed, i + 1)

\* emit_change_record on each record of recs: the file is opened with "a" and
\* the line written; an exception is swallowed, and the record is lost
emit_change_records(file, recs, failed) ==
    LET written == Emitted(recs, failed, 1)
    IN  IF written = <<>> THEN file
        ELSE [exists |-> TRUE, lines |-> file.lines \o written]

\* self.modified_text or self.original_text
BaseText == IF edit_modified_text # <<>> THEN edit_modified_text ELSE edit_original_text

\* the body of on_save_edits.  failed are the records whose emission raises; copied is
\* whether backup_file succeeds; opened whether open(..., "w") succeeds, which
\* truncates the file; k is how much of the text write has stored when it
\* raises (all of it when it succeeds)
SaveEdits ==
    /\ LET recs == EditRecords(GetOpcodes(BaseText, editor), BaseText, editor)
       IN  \E failed \in SUBSET (1 .. Len(recs)), copied, opened \in BOOLEAN,
              k \in 0 .. Len(editor) :
              /\ changes_path' = emit_change_records(changes_path, recs, failed)
              /\ IF recs = <<>>
                 THEN /\ save_message' = "No changes detected"
                      /\ UNCHANGED <<plaintext_file, backups, edit_modified_text>>
                 ELSE IF ~copied
                 THEN /\ save_message' = "Save error"
                      /\ UNCHANGED <<plaintext_file, backups, edit_modified_text>>
                 ELSE /\ backups' = Append(backups, plaintext_file)
                      /\ IF ~opened
                         THEN /\ save_message' = "Save error"
                              /\ UNCHANGED <<plaintext_file, edit_modified_text>>
                         ELSE /\ plaintext_file' = Slice(editor, 0, k)
                              /\ IF k < Len(editor)
                                 THEN /\ save_message' = "Save error"
                                      /\ UNCHANGED edit_modified_text
                                 ELSE /\ save_message' = "Saved"
                                      /\ edit_modified_text' = editor
    /\ UNCHANGED <<edit_original_text, editor>>
    /\ UNCHANGED nonfiles

\* the first call of the handler
on_save_edits ==
    /\ save_pc = "idle"
    /\ save_pc' = "done"
    /\ SaveEdits

\* the handler called again right after a call that has saved, the editor
\* untouched in between
on_save_edits_again ==
    /\ save_pc = "done"
    /\ save_message = "Saved"
    /\ save_pc' = "again"
    /\ SaveEdits

\* the change file before the handler: absent, or holding an earlier record
LogsBefore == {[exists |-> FALSE, lines |-> <<>>], [exists |-> TRUE, lines |-> <<OldRecord>>]}

\* a window about to save its edits, or a transformer about to run its patterns
InitFiles ==
    /\ ExtractIdle
    /\ CloseIdle
    /\ DefaultThresholds
    /\ RangesIdle
    /\ ParseIdle
    /\ WorkerIdle
    /\ RecIdle
    /\ GuiIdle
    /\ LogIdle
    /\ \/ /\ PtIdle
          /\ changes_path \in LogsBefore
          /\ edit_original_text \in Texts
          /\ plaintext_file = edit_original_text
          /\ backups = <<>>
          /\ edit_modified_text \in Texts
          /\ editor \in Texts
          /\ save_pc = "idle"
          /\ save_message = "none"
       \/ /\ FilesIdle
          /\ text_path \in BOOLEAN
          /\ text_view \in Texts
          /\ patterns_edit \in SeqsUpTo(PtLines, MaxRules)
          /\ pt_pc = "idle"
          /\ transform_txt = <<FALSE, <<>>>>
          /\ diff_html = <<FALSE, <<>>>>
          /\ pt_message = "none"

NextFiles ==
    \/ on_save_edits
    \/ run_patterns

SpecFiles == InitFiles /\ [][NextFiles]_vars

----------------------------------------------------------------------------
\* MainWindow of OLD2_regex_apply_gui.py: the window, its worker thread, and the
\* change file both write.  The worker emits the records of
\* _apply_patterns_fast one at a time, which is the loop of
\* apply_patterns_and_record_fast with the same records in the same order; the
\* handlers of the window run between two of its emissions.

MaxEditLen == 1
MaxCalls == 2

EditTexts == SeqsUpTo(Alphabet, MaxEditLen)

\* the rule lists the program is started with
LogRuleLists == {<<>>, <<RuleDouble>>, <<RuleDelete, RuleDouble>>, <<RuleBadRef>>}

\* self.modified_text before _on_worker_finished has assigned it
Unset == <<"unset">>

\* (mutant) the change file is opened with "w"
emit_change_record_truncating(file, record) ==
    [exists |-> TRUE, lines |-> <<record>>]

\* emit_change_record: the file is opened with "a" and the line written
emit_change_record(file, record) ==
    [exists |-> TRUE, lines |-> Append(file.lines, record)]

\* emit_change_record on the records of recs, in order
RECURSIVE EmitAll(_, _)
EmitAll(file, recs) ==
    IF recs = <<>> THEN file
    ELSE EmitAll(emit_change_record(file, Head(recs)), Tail(recs))

\* "ensure change file exists": an existing file is left as it is
EnsureChangeFile(file) ==
    IF file.exists THEN file ELSE [exists |-> TRUE, lines |-> <<>>]

\* _start_worker on text: what the worker will emit and return
StartedWorker(text) == apply_patterns_and_record_fast(text, o2_patterns, 1)

\* MainWindow.__init__; readable is whether the plaintext file can be read,
\* copied whether backup_file succeeds
OLD2_MainWindow_init ==
    /\ o2_pc = "new"
    /\ \E readable, copied \in BOOLEAN :
          IF ~readable
          THEN /\ o2_pc' = "failed"
               /\ UNCHANGED <<o2_changes, o2_backups, o2_original_text, o2_running,
                              o2_worker>>
          ELSE /\ o2_original_text' = o2_plaintext
               /\ o2_changes' = EnsureChangeFile(o2_changes)
               /\ IF ~copied
                  THEN /\ o2_pc' = "failed"
                       /\ UNCHANGED <<o2_backups, o2_running, o2_worker>>
                  ELSE /\ o2_pc' = "window"
                       /\ o2_backups' = Append(o2_backups, o2_plaintext)
                       /\ o2_running' = TRUE
                       /\ o2_worker' = StartedWorker(o2_plaintext)
    /\ UNCHANGED <<o2_plaintext, o2_patterns, o2_modified_text, o2_calls>>
    /\ UNCHANGED nonlog

\* the worker emits its next record; when the write raises, run emits error
OLD2_worker_emit ==
    /\ o2_running
    /\ o2_worker.records # <<>>
    /\ \E written \in BOOLEAN :
          IF written
          THEN /\ o2_changes' = emit_change_record(o2_changes, Head(o2_worker.records))
               /\ o2_worker' = [o2_worker EXCEPT !.records = Tail(@)]
          ELSE /\ o2_worker' = [exc |-> "OSError", text |-> <<>>, records |-> <<>>]
               /\ UNCHANGED o2_changes
    /\ UNCHANGED <<o2_pc, o2_plaintext, o2_backups, o2_patterns, o2_original_text,
                   o2_modified_text, o2_running, o2_calls>>
    /\ UNCHANGED nonlog

\* the worker has emitted its records: _on_worker_finished or _on_worker_error,
\* and the thread quits
OLD2_worker_ends ==
    /\ o2_running
    /\ o2_worker.records = <<>>
    /\ o2_running' = FALSE
    /\ o2_worker' = NoWorker
    /\ IF o2_worker.exc = "none"
       THEN /\ o2_original_text' = o2_worker.text
            /\ o2_modified_text' = o2_worker.text
       ELSE UNCHANGED <<o2_original_text, o2_modified_text>>
    /\ UNCHANGED <<o2_pc, o2_changes, o2_plaintext, o2_backups, o2_patterns, o2_calls>>
    /\ UNCHANGED nonlog

\* on_save_edits with edited in the editor.  n is the number of records
\* emitted before an emission raises (all of them when none does), which ends
\* the handler; copied, opened and k are as in on_save_edits above
OLD2_on_save_edits ==
    /\ o2_pc = "window"
    /\ o2_calls < MaxCalls
    /\ o2_calls' = o2_calls + 1
    /\ IF o2_modified_text = Unset
       THEN UNCHANGED <<o2_changes, o2_plaintext, o2_backups, o2_original_text,
                        o2_modified_text>>
       ELSE \E edited \in EditTexts :
            LET recs == EditRecords(GetOpcodes(o2_modified_text, edited),
                                    o2_modified_text, edited)
            IN  \E n \in 0 .. Len(recs), copied, opened \in BOOLEAN,
                   k \in 0 .. Len(edited) :
                   /\ o2_changes' = EmitAll(o2_changes, Slice(recs, 0, n))
                   /\ IF n < Len(recs) \/ recs = <<>> \/ ~copied
                      THEN UNCHANGED <<o2_plaintext, o2_backups, o2_original_text,
                                       o2_modified_text>>
                      ELSE /\ o2_backups' = Append(o2_backups, o2_plaintext)
                           /\ IF ~opened
                              THEN UNCHANGED <<o2_plaintext, o2_original_text,
                                               o2_modified_text>>
                              ELSE /\ o2_plaintext' = Slice(edited, 0, k)
                                   /\ IF k < Len(edited)
                                      THEN UNCHANGED <<o2_original_text, o2_modified_text>>
                                      ELSE /\ o2_original_text' = edited
                                           /\ o2_modified_text' = edited
    /\ UNCHANGED <<o2_pc, o2_patterns, o2_running, o2_worker>>
    /\ UNCHANGED nonlog

\* on_reapply_patterns: the plaintext file is read again; "Busy" when the
\* worker thread is running
OLD2_on_reapply_patterns ==
    /\ o2_pc = "window"
    /\ o2_calls < MaxCalls
    /\ o2_calls' = o2_calls + 1
    /\ \E readable \in BOOLEAN :
          IF ~readable
          THEN UNCHANGED <<o2_original_text, o2_running, o2_worker>>
          ELSE /\ o2_original_text' = o2_plaintext
               /\ IF o2_running
                  THEN UNCHANGED <<o2_running, o2_worker>>
                  ELSE /\ o2_running' = TRUE
                       /\ o2_worker' = StartedWorker(o2_plaintext)
    /\ UNCHANGED <<o2_pc, o2_changes, o2_plaintext, o2_backups, o2_patterns,
                   o2_modified_text>>
    /\ UNCHANGED nonlog

\* on_open_plain: the dialog is cancelled, or gives a file holding content
OLD2_on_open_plain ==
    /\ o2_pc = "window"
    /\ o2_calls < MaxCalls
    /\ o2_calls' = o2_calls + 1
    /\ \E cancelled \in BOOLEAN, content \in EditTexts :
          IF cancelled
          THEN UNCHANGED <<o2_plaintext, o2_original_text, o2_running, o2_worker>>
          ELSE /\ o2_plaintext' = content
               /\ o2_original_text' = content
               /\ IF o2_running
                  THEN UNCHANGED <<o2_running, o2_worker>>
                  ELSE /\ o2_running' = TRUE
                       /\ o2_worker' = StartedWorker(content)
    /\ UNCHANGED <<o2_pc, o2_changes, o2_backups, o2_patterns, o2_modified_text>>
    /\ UNCHANGED nonlog

\* the program is started on a plaintext file and a list of rules; the change
\* file is absent, or holds the record of an earlier run
InitLog ==
    /\ ExtractIdle
    /\ CloseIdle
    /\ DefaultThresholds
    /\ RangesIdle
    /\ ParseIdle
    /\ FilesIdle
    /\ WorkerIdle
    /\ RecIdle
    /\ PtIdle
    /\ GuiIdle
    /\ o2_pc = "new"
    /\ o2_changes \in LogsBefore
    /\ o2_plaintext \in EditTexts
    /\ o2_backups = <<>>
    /\ o2_patterns \in LogRuleLists
    /\ o2_original_text = <<>>
    /\ o2_modified_text = Unset
    /\ o2_running = FALSE
    /\ o2_worker = NoWorker
    /\ o2_calls = 0

NextLog ==
    \/ OLD2_MainWindow_init
    \/ OLD2_worker_emit
    \/ OLD2_worker_ends
    \/ OLD2_on_save_edits
    \/ OLD2_on_reapply_patterns
    \/ OLD2_on_open_plain

SpecLog == InitLog /\ [][NextLog]_vars

\* s is a prefix of t
IsPrefixOf(s, t) == Len(s) <= Len(t) /\ SubSeq(t, 1, Len(s)) = s

\* C20: the change log is append-only: whatever the window and its worker do
\* (passes, re-applies, opens, saves of manual edits), the records already in
\* the log stay, unmodified and at their positions, and a write adds whole
\* records after them
C20_ChangeLogAppendOnly ==
    [][ /\ IsPrefixOf(o2_changes.lines, o2_changes'.lines)
        /\ o2_changes.exists => o2_changes'.exists ]_vars

\* the log of an earlier run has received the records of the first pass of the
\* worker and of a re-apply and, after them, a record of a manual edit
C20_Witness ==
    /\ o2_calls >= 2
    /\ Len(o2_changes.lines) >= 6
    /\ o2_changes.lines[1] = OldRecord
    /\ \A i \in 2 .. 5 : "pattern" \in DOMAIN o2_changes.lines[i]
    /\ "pattern" \notin DOMAIN o2_changes.lines[Len(o2_changes.lines)]

\* C21: the change log has a single writer: while a pass of the worker still
\* has records to emit, no save of manual edits appends to the log; every
\* record the log receives in that time is a record of the pass
C21_SingleWriterOfChangeLog ==
    [][ (o2_running /\ o2_worker.records # <<>> /\ o2_changes'.lines # o2_changes.lines)
           => /\ Len(o2_changes'.lines) = Len(o2_changes.lines) + 1
              /\ o2_changes'.lines[Len(o2_changes'.lines)] = Head(o2_worker.records) ]_vars

----------------------------------------------------------------------------
\* The rule parsers: parse_pattern_line and parse_flag_tokens of
\* pattern_transformer.py, parse_patterns and parse_flag_string of
\* interactive_regex.py.  A line is the sequence of its characters; a flag set
\* is the set of the names of its flags.

\* the whitespace str.strip and \s know, among the characters of the lines
Whitespace == {" ", "\t"}

RECURSIVE LStrip(_)
LStrip(s) == IF s # <<>> /\ Head(s) \in Whitespace THEN LStrip(Tail(s)) ELSE s

RECURSIVE RStrip(_)
RStrip(s) ==
    IF s # <<>> /\ s[Len(s)] \in Whitespace THEN RStrip(SubSeq(s, 1, Len(s) - 1)) ELSE s

\* s.strip()
Strip(s) == RStrip(LStrip(s))

\* s.startswith(sub)
StartsWith(s, sub) == Len(sub) <= Len(s) /\ SubSeq(s, 1, Len(sub)) = sub

\* s.find(sub, i): the lowest offset from i on where sub stands, or -1
RECURSIVE Find(_, _, _)
Find(s, sub, i) ==
    IF i + Len(sub) > Len(s) THEN -1
    ELSE IF Slice(s, i, i + Len(sub)) = sub THEN i
    ELSE Find(s, sub, i + 1)

\* s.rfind(sub, 0, i + len(sub)): the highest offset up to i where sub stands, or -1
RECURSIVE FindLast(_, _, _)
FindLast(s, sub, i) ==
    IF i < 0 THEN -1
    ELSE IF Slice(s, i, i + Len(sub)) = sub THEN i
    ELSE FindLast(s, sub, i - 1)

\* (mutant) s.rsplit(sep, 1): the split is at the last separator
SplitLast(s, sep) ==
    LET i == FindLast(s, sep, Len(s) - Len(sep))
    IN  IF i < 0 THEN <<s>> ELSE <<Slice(s, 0, i), SliceFrom(s, i + Len(sep))>>

\* s.split(sep, 1)
SplitFirst(s, sep) ==
    LET i == Find(s, sep, 0)
    IN  IF i < 0 THEN <<s>> ELSE <<Slice(s, 0, i), SliceFrom(s, i + Len(sep))>>

\* s.split(sep)
RECURSIVE SplitAll(_, _)
SplitAll(s, sep) ==
    LET i == Find(s, sep, 0)
    IN  IF i < 0 THEN <<s>> ELSE <<Slice(s, 0, i)>> \o SplitAll(SliceFrom(s, i + Len(sep)), sep)

LowerCase == <<"a", "b", "c", "d", "e", "f", "g", "h", "i", "j", "k", "l", "m", "n", "o", "p", "q", "r", "s", "t", "u", "v", "w", "x", "y", "z">>
UpperCase == <<"A", "B", "C", "D", "E", "F", "G", "H", "I", "J", "K", "L", "M", "N", "O", "P", "Q", "R", "S", "T", "U", "V", "W", "X", "Y", "Z">>

\* c.upper() for a character
Upper(c) ==
    IF \E i \in 1 .. Len(LowerCase) : LowerCase[i] = c
    THEN UpperCase[CHOOSE i \in 1 .. Len(LowerCase) : LowerCase[i] = c]
    ELSE c

\* s.upper()
UpperStr(s) == [i \in 1 .. Len(s) |-> Upper(s[i])]

\* the non-empty items of re.split(r"[seps]+", s), in order
RECURSIVE Tokens(_, _, _)
Tokens(s, seps, cur) ==
    LET done == IF cur = <<>> THEN <<>> ELSE <<cur>>
    IN  IF s = <<>> THEN done
        ELSE IF Head(s) \in seps THEN done \o Tokens(Tail(s), seps, <<>>)
        ELSE Tokens(Tail(s), seps, Append(cur, Head(s)))

\* a table of flags: the keys it has, and the flag of a key
Keys(flag_table) == {p[1] : p \in flag_table}
FlagOf(flag_table, key) == (CHOOSE p \in flag_table : p[1] = key)[2]

\* the loop over the tokens: the flags of the tokens the table knows
RECURSIVE FlagsOfTokens(_, _)
FlagsOfTokens(toks, flag_table) ==
    IF toks = <<>> THEN {}
    ELSE LET key == UpperStr(Strip(Head(toks)))
         IN  (IF key \in Keys(flag_table) THEN {FlagOf(flag_table, key)} ELSE {})
             \cup FlagsOfTokens(Tail(toks), flag_table)

\* the tokens the table does not know, in order
UnknownTokens(toks, flag_table) ==
    SelectSeq(toks, LAMBDA t : UpperStr(Strip(t)) \notin Keys(flag_table))

\* FLAG_ALIASES (pattern_transformer.py)
FLAG_ALIASES ==
    { <<<<"I", "G", "N", "O", "R", "E", "C", "A", "S", "E">>, "IGNORECASE">>,
      <<<<"M", "U", "L", "T", "I", "L", "I", "N", "E">>, "MULTILINE">>,
      <<<<"D", "O", "T", "A", "L", "L">>, "DOTALL">>,
      <<<<"V", "E", "R", "B", "O", "S", "E">>, "VERBOSE">>,
      <<<<"A", "S", "C", "I", "I">>, "ASCII">>,
      <<<<"I">>, "IGNORECASE">>,
      <<<<"M">>, "MULTILINE">>,
      <<<<"S">>, "DOTALL">>,
      <<<<"X">>, "VERBOSE">>,
      <<<<"A">>, "ASCII">>,
      <<<<"R", "E", ".", "I", "G", "N", "O", "R", "E", "C", "A", "S", "E">>, "IGNORECASE">>,
      <<<<"R", "E", ".", "I">>, "IGNORECASE">>,
      <<<<"R", "E", ".", "M", "U", "L", "T", "I", "L", "I", "N", "E">>, "MULTILINE">>,
      <<<<"R", "E", ".", "M">>, "MULTILINE">>,
      <<<<"R", "E", ".", "D", "O", "T", "A", "L", "L">>, "DOTALL">>,
      <<<<"R", "E", ".", "S">>, "DOTALL">>,
      <<<<"R", "E", ".", "V", "E", "R", "B", "O", "S", "E">>, "VERBOSE">>,
      <<<<"R", "E", ".", "X">>, "VERBOSE">>,
      <<<<"R", "E", ".", "A", "S", "C", "I", "I">>, "ASCII">>,
      <<<<"R", "E", ".", "A">>, "ASCII">> }

\* the separators of parse_flag_tokens: [,\|;\s]+
TokenSeparators == {",", "|", ";"} \cup Whitespace

\* parse_flag_tokens (pattern_transformer.py); it gives no warning
parse_flag_tokens(tok_text) ==
    FlagsOfTokens(Tokens(Strip(tok_text), TokenSeparators, <<>>), FLAG_ALIASES)

\* the offset after the run of whitespace of s that starts at offset i
RECURSIVE SkipWhitespace(_, _)
SkipWhitespace(s, i) ==
    IF i < Len(s) /\ s[i + 1] \in Whitespace THEN SkipWhitespace(s, i + 1) ELSE i

FlagsWord == <<"F", "L", "A", "G", "S">>

\* re.search(r"flags\s*:\s*(.*)$", s, flags=re.IGNORECASE) from offset i on:
\* whether it matches, and group 1 (a line holds no line break)
RECURSIVE SearchFlags(_, _)
SearchFlags(s, i) ==
    IF i + Len(FlagsWord) > Len(s) THEN [found |-> FALSE, group |-> <<>>]
    ELSE LET j == SkipWhitespace(s, i + Len(FlagsWord))
         IN  IF /\ UpperStr(Slice(s, i, i + Len(FlagsWord))) = FlagsWord
                /\ j < Len(s)
                /\ s[j + 1] = ":"
             THEN [found |-> TRUE, group |-> SliceFrom(s, SkipWhitespace(s, j + 1))]
             ELSE SearchFlags(s, i + 1)

\* local `flags_text` of parse_pattern_line
FlagsText(line) ==
    LET parts      == SplitFirst(line, <<"#", "#">>)
        flags_part == IF Len(parts) > 1 THEN Strip(parts[2]) ELSE <<>>
        m          == SearchFlags(flags_part, 0)
    IN  IF flags_part = <<>> THEN <<>>
        ELSE IF m.found THEN Strip(m.group)
        ELSE flags_part

\* parse_pattern_line on the characters of a line: <<pattern, replacement, flags>>
ParsePatternLine(line) ==
    LET parts      == SplitFirst(line, <<"#", "#">>)
        rule_part  == Strip(parts[1])
        flags_text == FlagsText(line)
        sides      == SplitFirst(rule_part, <<"-", ">">>)
        pattern    == IF Len(sides) > 1 THEN Strip(sides[1]) ELSE rule_part
        replacement == IF Len(sides) > 1 THEN Strip(sides[2]) ELSE <<>>
    IN  <<pattern, replacement, parse_flag_tokens(flags_text) \cup {"MULTILINE"}>>

\* the loop of run_patterns over the lines of the editor: local `rules`
RECURSIVE RunPatternsRules(_)
RunPatternsRules(lines) ==
    IF lines = <<>> THEN <<>>
    ELSE LET ln_stripped == Strip(Head(lines))
         IN  (IF ln_stripped = <<>> \/ StartsWith(ln_stripped, <<"#">>)
              THEN <<>> ELSE <<ParsePatternLine(Head(lines))>>)
             \o RunPatternsRules(Tail(lines))

\* FLAG_MAP (interactive_regex.py)
FLAG_MAP ==
    { <<<<"I", "G", "N", "O", "R", "E", "C", "A", "S", "E">>, "IGNORECASE">>,
      <<<<"I">>, "IGNORECASE">>,
      <<<<"M", "U", "L", "T", "I", "L", "I", "N", "E">>, "MULTILINE">>,
      <<<<"M">>, "MULTILINE">>,
      <<<<"D", "O", "T", "A", "L", "L">>, "DOTALL">>,
      <<<<"S">>, "DOTALL">>,
      <<<<"V", "E", "R", "B", "O", "S", "E">>, "VERBOSE">>,
      <<<<"X">>, "VERBOSE">>,
      <<<<"A", "S", "C", "I", "I">>, "ASCII">>,
      <<<<"A">>, "ASCII">>,
      <<<<"L", "O", "C", "A", "L", "E">>, "LOCALE">>,
      <<<<"L">>, "LOCALE">>,
      <<<<"D", "E", "B", "U", "G">>, "DEBUG">> }

\* the separators of parse_flag_string: [,\s]+
PartSeparators == {","} \cup Whitespace

\* parse_flag_string (interactive_regex.py): the flags
parse_flag_string(flag_str) ==
    FlagsOfTokens(Tokens(Strip(flag_str), PartSeparators, <<>>), FLAG_MAP)

\* the parts parse_flag_string prints a warning about
FlagWarnings(flag_str) ==
    UnknownTokens(Tokens(Strip(flag_str), PartSeparators, <<>>), FLAG_MAP)

\* the length of the run of spaces of s that starts at offset i
RECURSIVE SpaceRun(_, _)
SpaceRun(s, i) == IF i < Len(s) /\ s[i + 1] = " " THEN 1 + SpaceRun(s, i + 1) ELSE 0

\* _normalize_separators: re.sub(r" {3,}", "\t", line)
RECURSIVE normalize_separators(_)
normalize_separators(line) ==
    IF line = <<>> THEN <<>>
    ELSE LET n == SpaceRun(line, 0)
         IN  IF n >= 3 THEN <<"\t">> \o normalize_separators(SliceFrom(line, n))
             ELSE IF n > 0 THEN Slice(line, 0, n) \o normalize_separators(SliceFrom(line, n))
             ELSE <<Head(line)>> \o normalize_separators(Tail(line))

\* s.split(None, 1)
SplitWhitespaceOnce(s) ==
    LET body == LStrip(s)
        i    == CHOOSE k \in 0 .. Len(body) :
                   /\ k = Len(body) \/ body[k + 1] \in Whitespace
                   /\ \A h \in 1 .. k : body[h] \notin Whitespace
        rest == LStrip(SliceFrom(body, i))
    IN  IF body = <<>> THEN <<>>
        ELSE IF rest = <<>> THEN <<Slice(body, 0, i)>>
        ELSE <<Slice(body, 0, i), rest>>

\* the body of the loop of parse_patterns on one line that is not skipped:
\* <<pat, repl, flags_part>>
SplitRuleLine(line) ==
    LET norm   == normalize_separators(line)
        fields == SplitAll(norm, <<"\t">>)
        arrow  == SplitFirst(norm, <<" ", "=", ">", " ">>)
        words  == SplitWhitespaceOnce(norm)
    IN  IF Find(norm, <<"\t">>, 0) >= 0
        THEN <<fields[1],
               IF Len(fields) >= 2 THEN fields[2] ELSE <<>>,
               IF Len(fields) >= 3 THEN fields[3] ELSE <<>>>>
        ELSE IF Len(arrow) > 1 THEN <<arrow[1], arrow[2], <<>>>>
        ELSE IF Len(words) = 2 THEN <<words[1], words[2], <<>>>>
        ELSE <<norm, <<>>, <<>>>>

\* whether parse_patterns passes over the line
SkippedLine(line) == line = <<>> \/ StartsWith(Strip(line), <<"#">>)

\* parse_patterns on the lines of an existing file
RECURSIVE parse_patterns(_)
parse_patterns(lines) ==
    IF lines = <<>> THEN <<>>
    ELSE (IF SkippedLine(Head(lines)) THEN <<>>
          ELSE LET r == SplitRuleLine(Head(lines))
               IN  <<<<r[1], r[2], parse_flag_string(r[3])>>>>)
         \o parse_patterns(Tail(lines))

\* the warnings of parse_patterns, in order
RECURSIVE ParseWarnings(_)
ParseWarnings(lines) ==
    IF lines = <<>> THEN <<>>
    ELSE (IF SkippedLine(Head(lines)) THEN <<>>
          ELSE FlagWarnings(SplitRuleLine(Head(lines))[3]))
         \o ParseWarnings(Tail(lines))

----------------------------------------------------------------------------
\* Both parsers on the same source.  A source is one line put together from
\* pieces of rule syntax, one line carrying a flags part put together from
\* pieces of flag syntax, or a few short lines.

MaxRulePieces == 3
MaxFlagPieces == 3
MaxLines == 3

RulePieces == {<<"a">>, <<"b">>, <<" ">>, <<"-", ">">>, <<"#">>, <<"\t">>}

FlagPieces ==
    {<<"i">>, <<"I">>, <<"s">>, <<"I", "g", "n", "o", "r", "e", "C", "a", "s", "e">>,
     <<"z", "z">>, <<",">>, <<" ">>, <<"f", "l", "a", "g", "s", ":">>}

\* a rule up to the marker of its flags part, in the syntax of either parser
FlagPrefixes == {<<"a", " ", "-", ">", "b", "#", "#">>, <<"a", "\t", "b", "\t">>}

ShortLines ==
    {<<>>, <<" ">>, <<"\t">>, <<"#">>, <<" ", "#", "a">>, <<"a", " ", "b">>}

RuleLines == {Concat(ps) : ps \in SeqsUpTo(RulePieces, MaxRulePieces)}
FlagTexts == {Concat(ps) : ps \in SeqsUpTo(FlagPieces, MaxFlagPieces)}
FlagLines == {prefix \o text : prefix \in FlagPrefixes, text \in FlagTexts}

Sources ==
    {<<line>> : line \in RuleLines \cup FlagLines} \cup SeqsUpTo(ShortLines, MaxLines)

\* the compiled form of a pattern text that is a literal, or a literal followed
\* by ".*" (no other character of the pattern texts of the sources is special
\* to re, and no source sets VERBOSE); the dot matches any character but the
\* line feed unless DOTALL is set
TextChars == {"a", "b", "x", "y", "t", "o", "d", "f", "i", ":", " ", "\n",
              "A", "B", "X", "Y", "T", "O", "D", "F", "I"}
RegexOf(pat_text, flags) ==
    IF Len(pat_text) >= 2 /\ SubSeq(pat_text, Len(pat_text) - 1, Len(pat_text)) = <<".", "*">>
    THEN Pat(SubSeq(pat_text, 1, Len(pat_text) - 2),
             IF "DOTALL" \in flags THEN TextChars ELSE TextChars \ {"\n"}, "star", FALSE)
    ELSE Pat(pat_text, {}, "none", FALSE)

\* the scan of re.sub with a replacement that holds no backslash: the pattern
\* is matched on `folded`, the text with IGNORECASE taken into account, and the
\* characters outside the matches are copied from text
RECURSIVE SubFolded(_, _, _, _, _, _)
SubFolded(pattern, repl, text, folded, pos, adv) ==
    IF pos > Len(text) THEN <<>>
    ELSE LET m == MatchAt(pattern, folded, pos)
         IN  IF m = NoMatch \/ (adv /\ m.end = m.start)
             THEN (IF pos < Len(text) THEN <<text[pos + 1]>> ELSE <<>>)
                  \o SubFolded(pattern, repl, text, folded, pos + 1, FALSE)
             ELSE repl \o SubFolded(pattern, repl, text, folded, m.end, m.end = m.start)

\* s as IGNORECASE compares it
Folded(s, flags) == IF "IGNORECASE" \in flags THEN UpperStr(s) ELSE s

\* re.sub(pat, repl, text, flags=flags) on the characters of pat and repl
ReSubText(pat, repl, text, flags) ==
    SubFolded(RegexOf(Folded(pat, flags), flags), repl, text, Folded(text, flags), 0, FALSE)

\* the loop of run_patterns over the rules
RECURSIVE TransformText(_, _)
TransformText(rules, text) ==
    IF rules = <<>> THEN text
    ELSE TransformText(Tail(rules),
                       ReSubText(Head(rules)[1], Head(rules)[2], text, Head(rules)[3]))

\* the example of the help dialog: TODO:.* ->  ## flags: IGNORECASE
HelpLine == <<"T", "O", "D", "O", ":", ".", "*", " ", "-", ">", " ", " ", "#", "#", " ",
              "f", "l", "a", "g", "s", ":", " ",
              "I", "G", "N", "O", "R", "E", "C", "A", "S", "E">>
HelpText == <<"x", "\n", "t", "o", "d", "o", ":", " ", "f", "i", "x", "\n", "y">>
HelpOut  == <<"x", "\n", "\n", "y">>

MaxViewLen == 2
ViewTexts == SeqsUpTo(Alphabet, MaxViewLen)

\* the loop of run_patterns over the lines of the editor, which is reached when
\* the editor holds more than whitespace; no line makes parse_pattern_line
\* raise, so the loop gives no warning
RunPatternsParse ==
    /\ ~pt_parsed
    /\ \E i \in 1 .. Len(src_lines) : Strip(src_lines[i]) # <<>>
    /\ pt_parsed' = TRUE
    /\ pt_rules' = RunPatternsRules(src_lines)
    /\ pt_warnings' = <<>>
    /\ UNCHANGED <<src_lines, ir_parsed, ir_patterns, ir_warnings, view_text, pt_applied,
                   pt_transformed>>
    /\ UNCHANGED nonparse

\* the loop of run_patterns over the rules it has parsed
RunPatternsTransform ==
    /\ pt_parsed
    /\ ~pt_applied
    /\ pt_applied' = TRUE
    /\ pt_transformed' = TransformText(pt_rules, view_text)
    /\ UNCHANGED <<src_lines, pt_parsed, pt_rules, pt_warnings, ir_parsed, ir_patterns,
                   ir_warnings, view_text>>
    /\ UNCHANGED nonparse

\* parse_patterns on a file holding the lines
ParsePatterns ==
    /\ ~ir_parsed
    /\ ir_parsed' = TRUE
    /\ ir_patterns' = parse_patterns(src_lines)
    /\ ir_warnings' = ParseWarnings(src_lines)
    /\ UNCHANGED <<src_lines, pt_parsed, pt_rules, pt_warnings, view_text, pt_applied,
                   pt_transformed>>
    /\ UNCHANGED nonparse

InitParse ==
    /\ ExtractIdle
    /\ CloseIdle
    /\ DefaultThresholds
    /\ RangesIdle
    /\ FilesIdle
    /\ LogIdle
    /\ WorkerIdle
    /\ RecIdle
    /\ PtIdle
    /\ GuiIdle
    /\ \/ src_lines \in Sources /\ view_text \in ViewTexts
       \/ src_lines = <<HelpLine>> /\ view_text = HelpText
    /\ pt_parsed = FALSE
    /\ pt_rules = <<>>
    /\ pt_warnings = <<>>
    /\ ir_parsed = FALSE
    /\ ir_patterns = <<>>
    /\ ir_warnings = <<>>
    /\ pt_applied = FALSE
    /\ pt_transformed = <<>>

NextParse ==
    \/ RunPatternsParse
    \/ RunPatternsTransform
    \/ ParsePatterns

SpecParse == InitParse /\ [][NextParse]_vars

\* C22: every rule a parser produces has MULTILINE in its flag set, whatever
\* flags its line names
C22_EveryRuleHasMultiline ==
    /\ \A i \in 1 .. Len(pt_rules) : "MULTILINE" \in pt_rules[i][3]
    /\ \A i \in 1 .. Len(ir_patterns) : "MULTILINE" \in ir_patterns[i][3]

\* the lines that are neither blank nor comments, in the order of the source
RuleBearing(lines) ==
    SelectSeq(lines, LAMBDA l : Strip(l) # <<>> /\ ~StartsWith(Strip(l), <<"#">>))

\* the rule parse_patterns makes of a line it does not skip
PatternOfLine(line) ==
    LET r == SplitRuleLine(line) IN <<r[1], r[2], parse_flag_string(r[3])>>

\* C23: blank lines (empty, or whitespace only) and lines whose first
\* character after whitespace is "#" produce no rule; the rules produced are
\* those of the other lines, in the order of the source
C23_BlankAndCommentLinesSkipped ==
    LET kept == RuleBearing(src_lines)
    IN  /\ pt_parsed => pt_rules = [i \in 1 .. Len(kept) |-> ParsePatternLine(kept[i])]
        /\ ir_parsed => ir_patterns = [i \in 1 .. Len(kept) |-> PatternOfLine(kept[i])]

\* s.lower()
LowerStr(s) ==
    [i \in 1 .. Len(s) |->
        IF \E k \in 1 .. Len(UpperCase) : UpperCase[k] = s[i]
        THEN LowerCase[CHOOSE k \in 1 .. Len(UpperCase) : UpperCase[k] = s[i]]
        ELSE s[i]]

\* the tokens joined by commas
RECURSIVE JoinTokens(_)
JoinTokens(toks) ==
    IF toks = <<>> THEN <<>>
    ELSE IF Len(toks) = 1 THEN Head(toks)
    ELSE Head(toks) \o <<",">> \o JoinTokens(Tail(toks))

\* the shortest and the longest key a table has for the flag of a key
ShortAlias(flag_table, key) ==
    CHOOSE k \in Keys(flag_table) :
        /\ FlagOf(flag_table, k) = FlagOf(flag_table, key)
        /\ \A h \in Keys(flag_table) :
              FlagOf(flag_table, h) = FlagOf(flag_table, key) => Len(k) <= Len(h)
LongAlias(flag_table, key) ==
    CHOOSE k \in Keys(flag_table) :
        /\ FlagOf(flag_table, k) = FlagOf(flag_table, key)
        /\ \A h \in Keys(flag_table) :
              FlagOf(flag_table, h) = FlagOf(flag_table, key) => Len(h) <= Len(k)

\* the text of the flags with every known token written as its other alias
\* (short for long and long for short) and every unknown token left out
OtherAliases(toks, flag_table) ==
    LET known == SelectSeq(toks, LAMBDA t : UpperStr(t) \in Keys(flag_table))
    IN  JoinTokens([i \in 1 .. Len(known) |->
                      IF UpperStr(known[i]) = ShortAlias(flag_table, UpperStr(known[i]))
                      THEN LongAlias(flag_table, UpperStr(known[i]))
                      ELSE ShortAlias(flag_table, UpperStr(known[i]))])

\* the flags text parse_patterns hands to parse_flag_string
FlagsPart(line) == SplitRuleLine(line)[3]

\* C24: the flag set depends only on the known flags named: it is the same in
\* upper and in lower case and with every flag written as its other alias; an
\* unknown token is left out with a warning, changes nothing in the flag set,
\* and the rule is produced all the same
C24_FlagsDependOnKnownNamesOnly ==
    \A n \in 1 .. Len(src_lines) :
       LET line == src_lines[n]
           t    == FlagsText(line)
           toks == Tokens(Strip(t), TokenSeparators, <<>>)
           f    == FlagsPart(line)
           parts == Tokens(Strip(f), PartSeparators, <<>>)
       IN  /\ (pt_parsed /\ Len(src_lines) = 1 /\ RuleBearing(src_lines) # <<>>) =>
                /\ Len(pt_rules) = 1
                /\ pt_rules[1][3] = parse_flag_tokens(UpperStr(t)) \cup {"MULTILINE"}
                /\ pt_rules[1][3] = parse_flag_tokens(LowerStr(t)) \cup {"MULTILINE"}
                /\ pt_rules[1][3] =
                      parse_flag_tokens(OtherAliases(toks, FLAG_ALIASES)) \cup {"MULTILINE"}
                /\ pt_warnings = UnknownTokens(toks, FLAG_ALIASES)
           /\ (ir_parsed /\ Len(src_lines) = 1 /\ ~SkippedLine(line)) =>
                /\ Len(ir_patterns) = 1
                /\ ir_patterns[1][3] = parse_flag_string(UpperStr(f))
                /\ ir_patterns[1][3] = parse_flag_string(LowerStr(f))
                /\ ir_patterns[1][3] = parse_flag_string(OtherAliases(parts, FLAG_MAP))
                /\ ir_warnings = UnknownTokens(parts, FLAG_MAP)

\* the least offset of s at which sub stands, or -1
FirstAt(s, sub) ==
    LET at == {i \in 0 .. Len(s) - Len(sub) : Slice(s, i, i + Len(sub)) = sub}
    IN  IF at = {} THEN -1 ELSE CHOOSE i \in at : \A j \in at : i <= j

\* the pattern and the replacement of a line: what stands before the first
\* "##" is cut at its first "->", and both sides are stripped
PatternAndReplacement(line) ==
    LET c    == FirstAt(line, <<"#", "#">>)
        part == Strip(IF c < 0 THEN line ELSE Slice(line, 0, c))
        a    == FirstAt(part, <<"-", ">">>)
    IN  IF a < 0 THEN <<part, <<>>>>
        ELSE <<Strip(Slice(part, 0, a)), Strip(SliceFrom(part, a + 2))>>

\* the spans of text the pattern of rule matches
MatchSpans(rule, text) ==
    LET ms == FindIter(RegexOf(Folded(rule[1], rule[3]), rule[3]), Folded(text, rule[3]))
    IN  [k \in 1 .. Len(ms) |-> <<ms[k].start, ms[k].end>>]

\* C25: parse_pattern_line fails on no line; the pattern and the replacement
\* are the stripped sides of the first "->" of what stands before the first
\* "##", the replacement being empty when there is no "->" or nothing after it;
\* a rule with an empty replacement deletes every match and leaves every other
\* character in place, and the rule of the help dialog turns
\* "x\ntodo: fix\ny" into "x\n\ny"
C25_ParsePatternLineSplitsAtFirstMarkers ==
    LET kept == RuleBearing(src_lines)
    IN  /\ pt_parsed =>
            /\ pt_warnings = <<>>
            /\ Len(pt_rules) = Len(kept)
            /\ \A i \in 1 .. Len(kept) :
                  /\ <<pt_rules[i][1], pt_rules[i][2]>> = PatternAndReplacement(kept[i])
                  /\ FirstAt(PatternAndReplacement(kept[i])[1], <<"-", ">">>) = -1
                  /\ (FirstAt(kept[i], <<"-", ">">>) = -1 => pt_rules[i][2] = <<>>)
        /\ (pt_applied /\ Len(pt_rules) = 1 /\ pt_rules[1][2] = <<>>) =>
              pt_transformed =
                  OutsideRanges(view_text, MatchSpans(pt_rules[1], view_text), 0)
        /\ (pt_applied /\ src_lines = <<HelpLine>> /\ view_text = HelpText) =>
              /\ pt_rules = <<<<SubSeq(HelpLine, 1, 7), <<>>, {"IGNORECASE", "MULTILINE"}>>>>
              /\ pt_transformed = HelpOut

\* the rule of the help dialog has been applied and has deleted its match
C25_Witness ==
    /\ pt_applied
    /\ src_lines = <<HelpLine>>
    /\ view_text = HelpText
    /\ pt_transformed = HelpOut

\* C26: whenever _on_worker_finished installs a result, the worker that
\* computed it was created on the text the window holds as original_text at
\* that moment, the text of the file at plaintext_path
C26_InstalledResultIsOfCurrentText ==
    [][ on_worker_finished =>
           threads[Head(gui_events).thread].text = win_original_text ]_vars

----------------------------------------------------------------------------
\* MainWindow.closeEvent and stop_worker (interactive_regex.py) beside a pass
\* of ApplyWorker in flight.  The thread runs until run has returned.

\* closeEvent up to worker_thread.wait of stop_worker: with no running thread
\* stop_worker returns True and the event is accepted; otherwise the worker is
\* asked to stop and the GUI thread waits
closeEvent ==
    /\ window = "open"
    /\ close_pc = "idle"
    /\ IF pc = "done"
       THEN /\ window' = "closed"
            /\ UNCHANGED <<should_stop, close_pc>>
       ELSE /\ should_stop' = TRUE
            /\ close_pc' = "waiting"
            /\ UNCHANGED window
    /\ UNCHANGED close_declined
    /\ UNCHANGED <<original_text, patterns, pc, current, pidx, matches, mi, pieces,
                   last_end, modified_text, emitted, obs>>
    /\ UNCHANGED svars
    /\ UNCHANGED nonclose

\* worker_thread.wait returns and closeEvent goes on: True when the thread has
\* ended, accepting the event; False on the timeout, when the answer to the
\* force-quit prompt decides
closeEventWaited ==
    /\ close_pc = "waiting"
    /\ close_pc' = "idle"
    /\ IF pc = "done"
       THEN /\ window' = "closed"
            /\ UNCHANGED close_declined
       ELSE \E res \in {"Yes", "No"} :
               IF res = "Yes"
               THEN /\ window' = "closed"
                    /\ UNCHANGED close_declined
               ELSE /\ close_declined' = TRUE
                    /\ UNCHANGED window
    /\ UNCHANGED wvars
    /\ UNCHANGED nonclose

InitClose ==
    /\ ExtractIdle
    /\ DefaultThresholds
    /\ RangesIdle
    /\ ParseIdle
    /\ FilesIdle
    /\ RecIdle
    /\ PtIdle
    /\ GuiIdle
    /\ LogIdle
    /\ window = "open"
    /\ close_pc = "idle"
    /\ close_declined = FALSE
    /\ original_text \in Texts
    /\ patterns \in RuleLists
    /\ should_stop = FALSE
    /\ pc = "run"
    /\ current = <<>>
    /\ pidx = 0
    /\ matches = <<>>
    /\ mi = 0
    /\ pieces = <<>>
    /\ last_end = 0
    /\ modified_text = <<>>
    /\ merged_text = <<>>
    /\ tag_ranges = <<>>
    /\ changed_line_pairs = <<>>
    /\ total_changed_lines = 0
    /\ ins_spans = <<>>
    /\ del_spans = <<>>
    /\ pi = 0
    /\ emitted = <<>>
    /\ obs = NoObs

NextClose ==
    \/ closeEvent
    \/ closeEventWaited
    \/ RunStart
    \/ RuleBegin
    \/ MatchBegin
    \/ MatchBody
    \/ AfterApply
    \/ Guard
    \/ PairBegin
    \/ PairBody

SpecClose == InitClose /\ [][NextClose]_vars

\* the spans of the pairs of changed lines, each pair refined in turn
RECURSIVE AllPairSpans(_, _, _, _, _)
AllPairSpans(pairs, original, modified, dels, inss) ==
    IF pairs = <<>> THEN [del |-> dels, ins |-> inss]
    ELSE LET r == PairSpans(Head(pairs), original, modified, dels, inss)
         IN  AllPairSpans(Tail(pairs), original, modified, r.del, r.ins)

\* the result of a pass over original with rules that nobody asks to stop
CompleteResult(original, rules) ==
    LET out == RunRules(rules, original)
        bm  == BuildMerged(original, out)
        c   == Collected(original, out)
        r   == AllPairSpans(c.pairs, original, out, <<>>, c.ins)
    IN  IF c.total > max_intraline_lines
        THEN ApplyResult(out, bm.merged, merge_ranges(c.ins),
                         merge_ranges(DelRanges(bm.tag_ranges)))
        ELSE ApplyResult(out, bm.merged, merge_ranges(r.ins),
                         merge_ranges(r.del \o DelRanges(bm.tag_ranges)))

\* C27: after a close request declined at the force-quit prompt the pass that
\* was in flight ends as a pass nobody asked to stop: when it emits `finished`,
\* the result is the complete one, the output of every rule with its merged
\* text and spans
C27_DeclinedCloseLeavesPassUnaffected ==
    (close_declined /\ pc = "done" /\ emitted # <<>> /\ emitted[1].sig = "finished") =>
        emitted[1].res = CompleteResult(original_text, patterns)

\* without a close request every pass that emits `finished` delivers the
\* complete result
CompleteWithoutCloseRequest ==
    (~should_stop /\ pc = "done" /\ emitted # <<>> /\ emitted[1].sig = "finished") =>
        emitted[1].res = CompleteResult(original_text, patterns)

----------------------------------------------------------------------------
\* on_save_edits called twice in a row

InitSaves ==
    /\ ExtractIdle
    /\ CloseIdle
    /\ DefaultThresholds
    /\ RangesIdle
    /\ ParseIdle
    /\ WorkerIdle
    /\ RecIdle
    /\ GuiIdle
    /\ LogIdle
    /\ PtIdle
    /\ changes_path \in LogsBefore
    /\ edit_original_text \in Texts
    /\ plaintext_file = edit_original_text
    /\ backups = <<>>
    /\ edit_modified_text \in Texts
    /\ editor \in Texts
    /\ save_pc = "idle"
    /\ save_message = "none"

NextSaves ==
    \/ on_save_edits
    \/ on_save_edits_again

SpecSaves == InitSaves /\ [][NextSaves]_vars

\* the files on_save_edits writes
SavedFiles == <<changes_path, plaintext_file, backups>>

\* C28: a save of an editor that holds the text the last pass produced (a
\* window whose modified_text is not empty has had one) appends no record,
\* creates no backup and does not write the plaintext file; neither does a save
\* that follows a successful save at once, whatever the editor holds
C28_SaveEditsNoOpAndIdempotent ==
    [][ /\ (save_pc = "idle" /\ save_pc' = "done" /\ edit_modified_text # <<>>
               /\ editor = edit_modified_text)
           => SavedFiles' = SavedFiles
        /\ (save_pc = "done" /\ save_pc' = "again") => SavedFiles' = SavedFiles ]_vars

----------------------------------------------------------------------------
\* process of the markup extraction (src/textExtract/writeCSV.py, and the
\* earlier src/textExtract/main.py): lines are sequences of characters, a
\* section is the record of its fields, processed_sections a function from
\* keys to sections

EmptySection == [id |-> <<>>, oid |-> <<>>, onum |-> <<>>, paragraphs |-> <<>>]

\* what leaves process by an exception
Raised == [exc |-> "raised"]

\* Content("", {}, [], "", [], {}) of writeCSV.py and Content("", {}, [], "", [])
\* of main.py: currently_ignoring takes its default, True
NewContent ==
    [pub_date |-> <<>>, processed_sections |-> <<>>, current |-> EmptySection,
     line |-> <<>>, current_section_keys |-> <<>>, currently_ignoring |-> TRUE]

\* Content.update_processed_sections
update_processed_sections(c) ==
    LET keys == {c.current_section_keys[i] : i \in 1 .. Len(c.current_section_keys)}
    IN  [c EXCEPT !.processed_sections =
                      [k \in DOMAIN c.processed_sections \cup keys |->
                          IF k \in keys THEN c.current ELSE c.processed_sections[k]],
                  !.current = EmptySection,
                  !.current_section_keys = <<>>]

\* Content.start_new_section
start_new_section(c, new_section_keys) ==
    [update_processed_sections(c) EXCEPT !.current_section_keys = new_section_keys,
                                         !.currently_ignoring = TRUE]

\* Content.update_current_lines
update_current_lines(c) ==
    IF c.line # <<>>
    THEN [c EXCEPT !.current.paragraphs = Append(c.current.paragraphs, c.line),
                   !.line = <<>>]
    ELSE c

\* Content.add_to_line
add_to_line(c, part) ==
    IF ~c.currently_ignoring THEN [c EXCEPT !.line = c.line \o part] ELSE c

\* [el for el in re.split(r"(@@)", line) if el]
RECURSIVE SplitKeepingMarks(_)
SplitKeepingMarks(line) ==
    LET i == Find(line, <<"@", "@">>, 0)
        before == IF i > 0 THEN <<Slice(line, 0, i)>> ELSE <<>>
    IN  IF i < 0 THEN (IF line = <<>> THEN <<>> ELSE <<line>>)
        ELSE before \o <<<<"@", "@">>>> \o SplitKeepingMarks(SliceFrom(line, i + 2))

SimpleCommands == {<<"p", "r", "o", "c", "e", "s", "s">>, <<"i", "g", "n", "o", "r", "e">>}

\* compound_commands of the program
CompoundCommands(program) ==
    {<<"m", "e", "t", "a">>, <<"l", "i", "n", "k">>, <<"n", "e", "w">>}
        \cup (IF program = "writeCSV"
              THEN {<<"o", "i", "d">>, <<"o", "n", "u", "m">>} ELSE {})

\* re.search(r"^\d[\d& /,]*$", phrase)
ShortForm(phrase) ==
    /\ phrase # <<>>
    /\ phrase[1] \in Digits
    /\ \A i \in 2 .. Len(phrase) : phrase[i] \in Digits \cup {"&", " ", "/", ","}

\* parse_command: the type, the verb and the object list of the command, and
\* the text; the short form is known to writeCSV.py only; a phrase with two
\* colons makes the unpacking of verb_object raise
parse_command(phrase, program) ==
    LET verb_object == SplitAll(phrase, <<":">>)
        verb == LowerStr(verb_object[1])
        cmd(v, o) == [verb |-> v, object_list |-> o]
    IN  IF LowerStr(phrase) \in SimpleCommands
        THEN <<"V", cmd(LowerStr(phrase), <<>>), <<>>>>
        ELSE IF program = "writeCSV" /\ ShortForm(phrase)
        THEN <<"VO", cmd(<<"n", "e", "w">>, <<phrase>>), <<>>>>
        ELSE IF Len(verb_object) = 1 THEN <<"unknown", cmd(<<>>, <<>>), <<>>>>
        ELSE IF Len(verb_object) > 2 THEN <<"raise", cmd(<<>>, <<>>), <<>>>>
        ELSE IF verb \in CompoundCommands(program)
        THEN <<"VO", cmd(verb, SplitAll(verb_object[2], <<"=">>)), <<>>>>
        ELSE <<"none", cmd(<<>>, <<>>), phrase>>

\* the loop of chunk_by_command over the items of the split line
RECURSIVE ChunksFrom(_, _, _)
ChunksFrom(items, open_cmd, program) ==
    IF items = <<>> THEN <<>>
    ELSE IF Head(items) = <<"@", "@">> THEN ChunksFrom(Tail(items), ~open_cmd, program)
    ELSE <<IF open_cmd THEN parse_command(Head(items), program)
           ELSE <<"none", [verb |-> <<>>, object_list |-> <<>>], Head(items)>>>>
         \o ChunksFrom(Tail(items), open_cmd, program)

chunk_by_command(line, program) == ChunksFrom(SplitKeepingMarks(line), FALSE, program)

\* process_verb
process_verb(cmd, c) ==
    IF cmd.verb = <<"i", "g", "n", "o", "r", "e">> THEN [c EXCEPT !.currently_ignoring = TRUE]
    ELSE IF cmd.verb = <<"p", "r", "o", "c", "e", "s", "s">>
    THEN [c EXCEPT !.currently_ignoring = FALSE]
    ELSE c

\* [el for el in re.split(r"[\s&,]", text) if el]
SectionKeys(text) == Tokens(text, {" ", "\t", "&", ","}, <<>>)

\* process_verb_object; a meta command without "=" raises on object_list[1]
process_verb_object(cmd, c) ==
    CASE cmd.verb = <<"n", "e", "w">> ->
            start_new_section(c, SectionKeys(cmd.object_list[1]))
      [] cmd.verb = <<"m", "e", "t", "a">> ->
            IF LowerStr(cmd.object_list[1]) = <<"p", "u", "b", "_", "d", "a", "t", "e">>
            THEN (IF Len(cmd.object_list) < 2 THEN Raised
                  ELSE [c EXCEPT !.pub_date = cmd.object_list[2]])
            ELSE c
      [] cmd.verb = <<"l", "i", "n", "k">> -> add_to_line(c, cmd.object_list[1])
      [] cmd.verb = <<"o", "i", "d">> -> [c EXCEPT !.current.oid = cmd.object_list[1]]
      [] cmd.verb = <<"o", "n", "u", "m">> -> [c EXCEPT !.current.onum = cmd.object_list[1]]
      [] OTHER -> c

\* the loop of process over the phrases of a line
RECURSIVE ProcessPhrases(_, _)
ProcessPhrases(phrases, c) ==
    IF phrases = <<>> \/ c = Raised THEN c
    ELSE LET ph == Head(phrases)
         IN  ProcessPhrases(Tail(phrases),
                 CASE ph[1] = "none" -> add_to_line(c, ph[3])
                   [] ph[1] = "V" -> process_verb(ph[2], c)
                   [] ph[1] = "VO" -> process_verb_object(ph[2], c)
                   [] ph[1] = "raise" -> Raised
                   [] OTHER -> c)

\* whether parse_command raises on a phrase of the line: chunk_by_command
\* parses the whole line before process handles its first phrase
ChunkingRaises(line, program) ==
    \E i \in 1 .. Len(chunk_by_command(line, program)) :
        chunk_by_command(line, program)[i][1] = "raise"

\* one turn of the loop of process over raw_lines
ProcessLine ==
    /\ te_pc = "loop"
    /\ te_index <= Len(raw_lines)
    /\ LET raw_line == raw_lines[te_index]
           c == IF ChunkingRaises(raw_line, te_program) THEN Raised
                ELSE ProcessPhrases(chunk_by_command(raw_line, te_program), te_content)
       IN  IF raw_line = <<>>
           THEN /\ te_index' = te_index + 1
                /\ UNCHANGED <<te_content, te_pc>>
           ELSE IF c = Raised
           THEN /\ te_pc' = "raised"
                /\ UNCHANGED <<te_content, te_index>>
           ELSE /\ te_content' = update_current_lines(c)
                /\ te_index' = te_index + 1
                /\ UNCHANGED te_pc
    /\ UNCHANGED <<te_program, raw_lines>>
    /\ UNCHANGED nonextract

\* the end of process, after the loop
ProcessReturns ==
    /\ te_pc = "loop"
    /\ te_index > Len(raw_lines)
    /\ te_content' = IF te_content.current.paragraphs # <<>>
                     THEN update_processed_sections(te_content) ELSE te_content
    /\ te_pc' = "returned"
    /\ UNCHANGED <<te_program, raw_lines, te_index>>
    /\ UNCHANGED nonextract

MaxExtractLines == 3

\* the lines of the inputs: an empty one, text, new commands in the long and
\* the short form and with two keys, process commands, an oid, and a phrase
\* with two colons
ExtractLines ==
    {<<>>,
     <<"t">>,
     <<"@", "@", "N", "E", "W", ":", "1">>,
     <<"@", "@", "2">>,
     <<"@", "@", "N", "E", "W", ":", "1", "&", "2">>,
     <<"@", "@", "p", "r", "o", "c", "e", "s", "s">>,
     <<"@", "@", "P", "R", "O", "C", "E", "S", "S", "@", "@", "t">>,
     <<"@", "@", "O", "I", "D", ":", "7">>,
     <<"@", "@", "a", ":", "b", ":", "c">>}

InitExtract ==
    /\ CloseIdle
    /\ DefaultThresholds
    /\ RangesIdle
    /\ ParseIdle
    /\ FilesIdle
    /\ LogIdle
    /\ WorkerIdle
    /\ RecIdle
    /\ PtIdle
    /\ GuiIdle
    /\ te_program \in {"writeCSV", "main"}
    /\ raw_lines \in SeqsUpTo(ExtractLines, MaxExtractLines)
    /\ te_index = 1
    /\ te_content = NewContent
    /\ te_pc = "loop"

NextExtract ==
    \/ ProcessLine
    \/ ProcessReturns

SpecExtract == InitExtract /\ [][NextExtract]_vars

\* the keys a phrase names when it is a new command: NEW:keys in any case, or
\* the short form, keys beginning with a digit
NewCommandKeys(phrase) ==
    IF Len(phrase) > 4 /\ LowerStr(SubSeq(phrase, 1, 4)) = <<"n", "e", "w", ":">>
    THEN SectionKeys(SubSeq(phrase, 5, Len(phrase)))
    ELSE IF ShortForm(phrase) THEN SectionKeys(phrase)
    ELSE <<>>

\* the phrases of a line that stand after an odd number of "@@"
CommandPhrases(line) ==
    LET items == SplitKeepingMarks(line)
        marks(i) == Cardinality({h \in 1 .. i : items[h] = <<"@", "@">>})
    IN  {items[i] : i \in {h \in 1 .. Len(items) :
                              items[h] # <<"@", "@">> /\ marks(h) % 2 = 1}}

\* the section keys the new commands of the lines name
NamedKeys(lines) ==
    UNION {UNION {{NewCommandKeys(ph)[i] : i \in 1 .. Len(NewCommandKeys(ph))} :
                     ph \in CommandPhrases(lines[n])} : n \in 1 .. Len(lines)}

\* C30: after process has returned, every section key named by a new command
\* of the input, in the long or the short form, alone or in a list of keys, is
\* a key of content.processed_sections
C30_EveryNamedSectionIsProcessed ==
    te_pc = "returned" => NamedKeys(raw_lines) \subseteq DOMAIN te_content.processed_sections

====
